---- MODULE Spec2Model ----
(***************************************************************************)
(* The detection-and-scoring pipeline of the privacy engine:               *)
(* analyzeWallet (engine.ts) with the exchange, clustering, wash-trading   *)
(* and identity-asset detectors, the compliance screener and the risk      *)
(* aggregator.                                                             *)
(*                                                                         *)
(* Conventions of the model.                                               *)
(*  - A JavaScript string is carried as a TLA+ string; whatever the code    *)
(*    does with its characters (length, regular expressions, toLowerCase,  *)
(*    includes, charCodeAt) is computed on CharCodes(s), its UTF-16 code    *)
(*    units.                                                               *)
(*  - A JavaScript Map or Set is a sequence in insertion order, as the     *)
(*    language iterates it.                                                *)
(*  - null / undefined results are the empty sequence, a found value v is  *)
(*    <<v>>.                                                               *)
(*  - TLC integers have 32 bits. A native amount is therefore carried in   *)
(*    units of 10^8 lamports (2,500,000,000 lamports is 25), and the       *)
(*    division by 1e9 is the division by LAMPORT_UNITS_PER_SOL = 10; the   *)
(*    32-bit hash of hashAddress is computed on two 16-bit limbs.          *)
(***************************************************************************)
EXTENDS Integers, Sequences, FiniteSets, TLC

VARIABLES
  walletAddress,      \* analyzeWallet's argument
  transactions,       \* the transaction list the indexer returned
  pc,                 \* position in analyzeWallet
  heliusEnabled,      \* heliusService.isReady()
  realBalance,        \* heliusService.getBalance(address)
  complianceResult,   \* checkRisk(address)
  cexResult,          \* detectCEXTransactions(transactions, address)
  clusteringResult,   \* detectClustering(transactions, address)
  washTradingResult,  \* detectWashTrading(transactions, address)
  assetsResult,       \* detectIdentityAssets(transactions, address)
  interacting,        \* getInteractingAddresses(...), still to be screened
  addressRisks,       \* the accumulator of checkInteractingAddresses
  scoreOutput,        \* calculatePrivacyScore(...): <<>> or <<[score, deductions]>>
  report,             \* <<>> until analyzeWallet returns, then <<report>>
  clock,              \* the last value Date read
  previous            \* <<>>, or <<[score, riskLevel]>> of an earlier run on the same input

vars == <<walletAddress, transactions, pc, heliusEnabled, realBalance,
          complianceResult, cexResult, clusteringResult, washTradingResult,
          assetsResult, interacting, addressRisks, scoreOutput, report, clock,
          previous>>

(***************************************************************************)
(* Bounds of the model.                                                    *)
(***************************************************************************)
MaxTxs == 2             \* transactions the indexer returns in Spec
MaxClock == 1           \* Date reads range over 0..MaxClock
MaxBalance == 1         \* balances range over 0..MaxBalance
MaxInteractions == 18   \* transfers of a history in SpecClustering
MaxWashTransfers == 5   \* native transfers of a history in SpecWash
MaxTime == 2            \* timestamps range over 1..MaxTime in SpecWash
MaxCexTxs == 2          \* transactions of a history in SpecCEX
MaxBatchTransfers == 8  \* transfers of a history in SpecClusteringBatch
MaxAssetTxs == 3        \* transactions of a history in SpecAssets
MaxResponseTxs == 2     \* transactions of a response in SpecResponse
MaxMintTxs == 3         \* transactions of a history in SpecAssetsMints
MaxScreenedTxs == 3     \* transactions of a history in SpecScreening
MaxCounterpartyTxs == 3 \* transactions of a history in SpecCounterparties

(***************************************************************************)
(* Strings.                                                                *)
(***************************************************************************)
CharCodes(s) ==
  CASE
  s = "" ->
      <<>>
  []
  s = "vines1vzrYbzLMRdu58ou5XTby4qAqVRLmqo36NKPTg" ->
      <<118, 105, 110, 101, 115, 49, 118, 122, 114, 89, 98, 122, 76, 77, 82, 100, 117, 53, 56, 111, 117, 53, 88, 84, 98, 121, 52, 113, 65, 113, 86, 82, 76, 109, 113, 111, 51, 54, 78, 75, 80, 84, 103>>
  []
  s = "7eEqn3zGpQqq8fYjzqhfvwRRRVrBe3D3P4YfZ12GsAC1" ->
      <<55, 101, 69, 113, 110, 51, 122, 71, 112, 81, 113, 113, 56, 102, 89, 106, 122, 113, 104, 102, 118, 119, 82, 82, 82, 86, 114, 66, 101, 51, 68, 51, 80, 52, 89, 102, 90, 49, 50, 71, 115, 65, 67, 49>>
  []
  s = "CnK9VjRNgSJcq1UR89J8RmMNPSYKe2qkM4eRLmWMKPxn" ->
      <<67, 110, 75, 57, 86, 106, 82, 78, 103, 83, 74, 99, 113, 49, 85, 82, 56, 57, 74, 56, 82, 109, 77, 78, 80, 83, 89, 75, 101, 50, 113, 107, 77, 52, 101, 82, 76, 109, 87, 77, 75, 80, 120, 110>>
  []
  s = "Hp9SQbMoEhN9GwK1fY8xEyJBpDHZtCxXhpKA5KZjKekW" ->
      <<72, 112, 57, 83, 81, 98, 77, 111, 69, 104, 78, 57, 71, 119, 75, 49, 102, 89, 56, 120, 69, 121, 74, 66, 112, 68, 72, 90, 116, 67, 120, 88, 104, 112, 75, 65, 53, 75, 90, 106, 75, 101, 107, 87>>
  []
  s = "E6tYH8TcVpzWS7YfcM9cKH8NbxRcPQjKJqvUTWKD9FqN" ->
      <<69, 54, 116, 89, 72, 56, 84, 99, 86, 112, 122, 87, 83, 55, 89, 102, 99, 77, 57, 99, 75, 72, 56, 78, 98, 120, 82, 99, 80, 81, 106, 75, 74, 113, 118, 85, 84, 87, 75, 68, 57, 70, 113, 78>>
  []
  s = "3JQRMn5sFjE7M3YPdCkL8KZKvN2qnhXTxmRYJWPsZKaB" ->
      <<51, 74, 81, 82, 77, 110, 53, 115, 70, 106, 69, 55, 77, 51, 89, 80, 100, 67, 107, 76, 56, 75, 90, 75, 118, 78, 50, 113, 110, 104, 88, 84, 120, 109, 82, 89, 74, 87, 80, 115, 90, 75, 97, 66>>
  []
  s = "5tzFkiKscXHK5ZXCGbXZxdw7gTjjD1mBwuoFbhUvuAi9" ->
      <<53, 116, 122, 70, 107, 105, 75, 115, 99, 88, 72, 75, 53, 90, 88, 67, 71, 98, 88, 90, 120, 100, 119, 55, 103, 84, 106, 106, 68, 49, 109, 66, 119, 117, 111, 70, 98, 104, 85, 118, 117, 65, 105, 57>>
  []
  s = "9WzDXwBbmkg8ZTbNMqUxvQRAyrZzDsGYdLVL9zYtAWWM" ->
      <<57, 87, 122, 68, 88, 119, 66, 98, 109, 107, 103, 56, 90, 84, 98, 78, 77, 113, 85, 120, 118, 81, 82, 65, 121, 114, 90, 122, 68, 115, 71, 89, 100, 76, 86, 76, 57, 122, 89, 116, 65, 87, 87, 77>>
  []
  s = "2ojv9BAiHUrvsm9gxDe7fJSzbNZSJcxZvf8dqmWGHG8S" ->
      <<50, 111, 106, 118, 57, 66, 65, 105, 72, 85, 114, 118, 115, 109, 57, 103, 120, 68, 101, 55, 102, 74, 83, 122, 98, 78, 90, 83, 74, 99, 120, 90, 118, 102, 56, 100, 113, 109, 87, 71, 72, 71, 56, 83>>
  []
  s = "H8sMJSCQxfKiFTCfDR3DUMLPwcRbM61LGFJ8N4dK3WjS" ->
      <<72, 56, 115, 77, 74, 83, 67, 81, 120, 102, 75, 105, 70, 84, 67, 102, 68, 82, 51, 68, 85, 77, 76, 80, 119, 99, 82, 98, 77, 54, 49, 76, 71, 70, 74, 56, 78, 52, 100, 75, 51, 87, 106, 83>>
  []
  s = "GJRs4FwHtemZ5ZE9x3FNvJ8TMwitKTh21yxdRPqn7npE" ->
      <<71, 74, 82, 115, 52, 70, 119, 72, 116, 101, 109, 90, 53, 90, 69, 57, 120, 51, 70, 78, 118, 74, 56, 84, 77, 119, 105, 116, 75, 84, 104, 50, 49, 121, 120, 100, 82, 80, 113, 110, 55, 110, 112, 69>>
  []
  s = "2AQdpHJ2JpcEgPiATUXjQxA8QmafFegfQwSLWSprPicm" ->
      <<50, 65, 81, 100, 112, 72, 74, 50, 74, 112, 99, 69, 103, 80, 105, 65, 84, 85, 88, 106, 81, 120, 65, 56, 81, 109, 97, 102, 70, 101, 103, 102, 81, 119, 83, 76, 87, 83, 112, 114, 80, 105, 99, 109>>
  []
  s = "FWznbcNXWQuHTawe9RxvQ2LdCENssh12dsznf4RiouN5" ->
      <<70, 87, 122, 110, 98, 99, 78, 88, 87, 81, 117, 72, 84, 97, 119, 101, 57, 82, 120, 118, 81, 50, 76, 100, 67, 69, 78, 115, 115, 104, 49, 50, 100, 115, 122, 110, 102, 52, 82, 105, 111, 117, 78, 53>>
  []
  s = "7hUdUTkJLwdcmt3jSEeqx4ep91sm1XwBxMDaJae6bD5D" ->
      <<55, 104, 85, 100, 85, 84, 107, 74, 76, 119, 100, 99, 109, 116, 51, 106, 83, 69, 101, 113, 120, 52, 101, 112, 57, 49, 115, 109, 49, 88, 119, 66, 120, 77, 68, 97, 74, 97, 101, 54, 98, 68, 53, 68>>
  []
  s = "CuieVDEDtLo7FypA9SbLM9saXFdb1dsshEkyErMqkRQq" ->
      <<67, 117, 105, 101, 86, 68, 69, 68, 116, 76, 111, 55, 70, 121, 112, 65, 57, 83, 98, 76, 77, 57, 115, 97, 88, 70, 100, 98, 49, 100, 115, 115, 104, 69, 107, 121, 69, 114, 77, 113, 107, 82, 81, 113>>
  []
  s = "5VCwKtCXgCJ6kit5FybXjvriW3xELsFDhYrPSqtJNmcD" ->
      <<53, 86, 67, 119, 75, 116, 67, 88, 103, 67, 74, 54, 107, 105, 116, 53, 70, 121, 98, 88, 106, 118, 114, 105, 87, 51, 120, 69, 76, 115, 70, 68, 104, 89, 114, 80, 83, 113, 116, 74, 78, 109, 99, 68>>
  []
  s = "BmFdpraQhkiDQE6SnfG5omcA1VwzqfXrwtNYBwWTymy6" ->
      <<66, 109, 70, 100, 112, 114, 97, 81, 104, 107, 105, 68, 81, 69, 54, 83, 110, 102, 71, 53, 111, 109, 99, 65, 49, 86, 119, 122, 113, 102, 88, 114, 119, 116, 78, 89, 66, 119, 87, 84, 121, 109, 121, 54>>
  []
  s = "FriendWallet1xxxxxxxxxxxxxxxxxxxxxxxxxxxxxxx" ->
      <<70, 114, 105, 101, 110, 100, 87, 97, 108, 108, 101, 116, 49, 120, 120, 120, 120, 120, 120, 120, 120, 120, 120, 120, 120, 120, 120, 120, 120, 120, 120, 120, 120, 120, 120, 120, 120, 120, 120, 120, 120, 120, 120, 120>>
  []
  s = "RandomAddr123456789012345678901234567890123" ->
      <<82, 97, 110, 100, 111, 109, 65, 100, 100, 114, 49, 50, 51, 52, 53, 54, 55, 56, 57, 48, 49, 50, 51, 52, 53, 54, 55, 56, 57, 48, 49, 50, 51, 52, 53, 54, 55, 56, 57, 48, 49, 50, 51>>
  []
  s = "MinterAddress12345678901234567890123456" ->
      <<77, 105, 110, 116, 101, 114, 65, 100, 100, 114, 101, 115, 115, 49, 50, 51, 52, 53, 54, 55, 56, 57, 48, 49, 50, 51, 52, 53, 54, 55, 56, 57, 48, 49, 50, 51, 52, 53, 54>>
  []
  s = "JUP4Fb2cqiRUcaTHdrPC8h2gNsA2ETXiPDD33WcGuJB" ->
      <<74, 85, 80, 52, 70, 98, 50, 99, 113, 105, 82, 85, 99, 97, 84, 72, 100, 114, 80, 67, 56, 104, 50, 103, 78, 115, 65, 50, 69, 84, 88, 105, 80, 68, 68, 51, 51, 87, 99, 71, 117, 74, 66>>
  []
  s = "WrapMASi45ub7Qe4ZE36UT5G6cU4ud8Fhhe4dhacsziz" ->
      <<87, 114, 97, 112, 77, 65, 83, 105, 52, 53, 117, 98, 55, 81, 101, 52, 90, 69, 51, 54, 85, 84, 53, 71, 54, 99, 85, 52, 117, 100, 56, 70, 104, 104, 101, 52, 100, 104, 97, 99, 115, 122, 105, 122>>
  []
  s = "1111111111111111111111111111111" ->
      <<49, 49, 49, 49, 49, 49, 49, 49, 49, 49, 49, 49, 49, 49, 49, 49, 49, 49, 49, 49, 49, 49, 49, 49, 49, 49, 49, 49, 49, 49, 49>>
  []
  s = "11111111111111111111111111111111" ->
      <<49, 49, 49, 49, 49, 49, 49, 49, 49, 49, 49, 49, 49, 49, 49, 49, 49, 49, 49, 49, 49, 49, 49, 49, 49, 49, 49, 49, 49, 49, 49, 49>>
  []
  s = "111111111111111111111111111111111111111111111" ->
      <<49, 49, 49, 49, 49, 49, 49, 49, 49, 49, 49, 49, 49, 49, 49, 49, 49, 49, 49, 49, 49, 49, 49, 49, 49, 49, 49, 49, 49, 49, 49, 49, 49, 49, 49, 49, 49, 49, 49, 49, 49, 49, 49, 49, 49>>
  []
  s = "vines1vzrY" ->
      <<118, 105, 110, 101, 115, 49, 118, 122, 114, 89>>
  []
  s = "namesLPneVptA9Z5rqUDD9tMTWEJwofgaYwp8cawRkX" ->
      <<110, 97, 109, 101, 115, 76, 80, 110, 101, 86, 112, 116, 65, 57, 90, 53, 114, 113, 85, 68, 68, 57, 116, 77, 84, 87, 69, 74, 119, 111, 102, 103, 97, 89, 119, 112, 56, 99, 97, 119, 82, 107, 88>>
  []
  s = "jCebN34bUfdeUYJT13J1yG16XWQpt5PDx6Mse9GUqhR" ->
      <<106, 67, 101, 98, 78, 51, 52, 98, 85, 102, 100, 101, 85, 89, 74, 84, 49, 51, 74, 49, 121, 71, 49, 54, 88, 87, 81, 112, 116, 53, 80, 68, 120, 54, 77, 115, 101, 57, 71, 85, 113, 104, 82>>
  []
  s = "Transferred 1 SOL" ->
      <<84, 114, 97, 110, 115, 102, 101, 114, 114, 101, 100, 32, 49, 32, 83, 79, 76>>
  []
  s = "Transferred 0.5 SOL" ->
      <<84, 114, 97, 110, 115, 102, 101, 114, 114, 101, 100, 32, 48, 46, 53, 32, 83, 79, 76>>
  []
  s = "Transferred 2.5 SOL to Binance" ->
      <<84, 114, 97, 110, 115, 102, 101, 114, 114, 101, 100, 32, 50, 46, 53, 32, 83, 79, 76, 32, 116, 111, 32, 66, 105, 110, 97, 110, 99, 101>>
  []
  s = "Received 1 SOL from Coinbase" ->
      <<82, 101, 99, 101, 105, 118, 101, 100, 32, 49, 32, 83, 79, 76, 32, 102, 114, 111, 109, 32, 67, 111, 105, 110, 98, 97, 115, 101>>
  []
  s = "Received Solana Hackathon 2024 Attendance Badge" ->
      <<82, 101, 99, 101, 105, 118, 101, 100, 32, 83, 111, 108, 97, 110, 97, 32, 72, 97, 99, 107, 97, 116, 104, 111, 110, 32, 50, 48, 50, 52, 32, 65, 116, 116, 101, 110, 100, 97, 110, 99, 101, 32, 66, 97, 100, 103, 101>>
  []
  s = "Transferred 0.1 SOL" ->
      <<84, 114, 97, 110, 115, 102, 101, 114, 114, 101, 100, 32, 48, 46, 49, 32, 83, 79, 76>>
  []
  s = "Received 0.2 SOL" ->
      <<82, 101, 99, 101, 105, 118, 101, 100, 32, 48, 46, 50, 32, 83, 79, 76>>
  []
  s = "Received Hackathon POAP Badge" ->
      <<82, 101, 99, 101, 105, 118, 101, 100, 32, 72, 97, 99, 107, 97, 116, 104, 111, 110, 32, 80, 79, 65, 80, 32, 66, 97, 100, 103, 101>>
  []
  s = "Bought Mad Lad #42 for 10 SOL" ->
      <<66, 111, 117, 103, 104, 116, 32, 77, 97, 100, 32, 76, 97, 100, 32, 35, 52, 50, 32, 102, 111, 114, 32, 49, 48, 32, 83, 79, 76>>
  []
  s = "Registered alice.sol" ->
      <<82, 101, 103, 105, 115, 116, 101, 114, 101, 100, 32, 97, 108, 105, 99, 101, 46, 115, 111, 108>>
  []
  s = "Registered bob.sol" ->
      <<82, 101, 103, 105, 115, 116, 101, 114, 101, 100, 32, 98, 111, 98, 46, 115, 111, 108>>
  []
  s = "Renewed Domain" ->
      <<82, 101, 110, 101, 119, 101, 100, 32, 68, 111, 109, 97, 105, 110>>
  []
  s = "poap" ->
      <<112, 111, 97, 112>>
  []
  s = "proof of attendance" ->
      <<112, 114, 111, 111, 102, 32, 111, 102, 32, 97, 116, 116, 101, 110, 100, 97, 110, 99, 101>>
  []
  s = "event" ->
      <<101, 118, 101, 110, 116>>
  []
  s = "badge" ->
      <<98, 97, 100, 103, 101>>
  []
  s = "attendance" ->
      <<97, 116, 116, 101, 110, 100, 97, 110, 99, 101>>
  []
  s = "participated" ->
      <<112, 97, 114, 116, 105, 99, 105, 112, 97, 116, 101, 100>>
  []
  s = "hackathon" ->
      <<104, 97, 99, 107, 97, 116, 104, 111, 110>>
  []
  s = "conference" ->
      <<99, 111, 110, 102, 101, 114, 101, 110, 99, 101>>
  []
  s = "meetup" ->
      <<109, 101, 101, 116, 117, 112>>
  []
  s = ".sol" ->
      <<46, 115, 111, 108>>
  []
  s = "domain" ->
      <<100, 111, 109, 97, 105, 110>>
  []
  s = "name service" ->
      <<110, 97, 109, 101, 32, 115, 101, 114, 118, 105, 99, 101>>
  []
  s = "received" ->
      <<114, 101, 99, 101, 105, 118, 101, 100>>

\* String.prototype.toLowerCase on ASCII
ToLowerCase(codes) ==
  [i \in 1..Len(codes) |-> IF codes[i] \in 65..90 THEN codes[i] + 32 ELSE codes[i]]

\* String.prototype.includes
Includes(hay, needle) ==
  \E i \in 0..(Len(hay) - Len(needle)) :
    \A j \in 1..Len(needle) : hay[i + j] = needle[j]

\* Left fold of s[lo..hi], the shape of every `for (const x of xs)` below. The
\* range is halved, and the accumulator compared with itself, only to have the
\* left half evaluated before the right half is entered.
RECURSIVE FoldRange(_, _, _, _, _)
FoldRange(Op(_, _), acc, s, lo, hi) ==
  IF lo > hi \/ acc # acc THEN acc
  ELSE IF lo = hi THEN Op(acc, s[lo])
  ELSE FoldRange(Op, FoldRange(Op, acc, s, lo, (lo + hi) \div 2), s,
                 (lo + hi) \div 2 + 1, hi)

FoldLeft(Op(_, _), acc, s) == FoldRange(Op, acc, s, 1, Len(s))

\* Array.prototype.includes / some(x => x === v)
InSeq(s, v) == \E i \in 1..Len(s) : s[i] = v

(***************************************************************************)
(* utils/constants.ts                                                      *)
(***************************************************************************)
KNOWN_CEX ==
  << [address |-> "5tzFkiKscXHK5ZXCGbXZxdw7gTjjD1mBwuoFbhUvuAi9", name |-> "Binance"],
     [address |-> "9WzDXwBbmkg8ZTbNMqUxvQRAyrZzDsGYdLVL9zYtAWWM", name |-> "Binance"],
     [address |-> "2ojv9BAiHUrvsm9gxDe7fJSzbNZSJcxZvf8dqmWGHG8S", name |-> "Binance"],
     [address |-> "H8sMJSCQxfKiFTCfDR3DUMLPwcRbM61LGFJ8N4dK3WjS", name |-> "Coinbase"],
     [address |-> "GJRs4FwHtemZ5ZE9x3FNvJ8TMwitKTh21yxdRPqn7npE", name |-> "Coinbase"],
     [address |-> "2AQdpHJ2JpcEgPiATUXjQxA8QmafFegfQwSLWSprPicm", name |-> "Coinbase"],
     [address |-> "FWznbcNXWQuHTawe9RxvQ2LdCENssh12dsznf4RiouN5", name |-> "Kraken"],
     [address |-> "7hUdUTkJLwdcmt3jSEeqx4ep91sm1XwBxMDaJae6bD5D", name |-> "Kraken"],
     [address |-> "CuieVDEDtLo7FypA9SbLM9saXFdb1dsshEkyErMqkRQq", name |-> "FTX (defunct)"],
     [address |-> "5VCwKtCXgCJ6kit5FybXjvriW3xELsFDhYrPSqtJNmcD", name |-> "OKX"],
     [address |-> "BmFdpraQhkiDQE6SnfG5omcA1VwzqfXrwtNYBwWTymy6", name |-> "KuCoin"] >>

SCORE_THRESHOLDS == [CRITICAL |-> 25, HIGH |-> 50, MEDIUM |-> 75, LOW |-> 100]

POINT_DEDUCTIONS ==
  [CEX_DEPOSIT |-> 15, CEX_WITHDRAWAL |-> 10, CLUSTER_DETECTED |-> 20,
   NFT_POAP_EXPOSED |-> 5, SOL_DOMAIN_EXPOSED |-> 10,
   SANCTIONED_INTERACTION |-> 50, HIGH_FREQUENCY_SAME_ADDR |-> 8]

ANALYSIS_CONFIG ==
  [MAX_TRANSACTIONS_TO_ANALYZE |-> 100,
   CLUSTER_THRESHOLD_PERCENTAGE |-> 50,
   MIN_TRANSACTIONS_FOR_PATTERN |-> 5]

\* RECOMMENDED_TOOLS.find(t => t.useCase === useCase)?.name
RecommendedTool(useCase) ==
  CASE useCase = "CEX_DEPOSIT" -> <<"Privacy Cash">>
    [] useCase = "CLUSTER_DETECTED" -> <<"Radr Labs">>
    [] useCase = "SANCTIONED_INTERACTION" -> <<"Range Protocol">>
    [] useCase = "GENERAL_PRIVACY" -> <<"Elusiv">>
    [] OTHER -> <<>>

(***************************************************************************)
(* services/range.ts: the compliance screener                              *)
(***************************************************************************)
MOCK_SANCTIONED_ADDRESSES ==
  << "7eEqn3zGpQqq8fYjzqhfvwRRRVrBe3D3P4YfZ12GsAC1",
     "CnK9VjRNgSJcq1UR89J8RmMNPSYKe2qkM4eRLmWMKPxn",
     "Hp9SQbMoEhN9GwK1fY8xEyJBpDHZtCxXhpKA5KZjKekW" >>

MOCK_FLAGGED_ADDRESSES ==
  << "E6tYH8TcVpzWS7YfcM9cKH8NbxRcPQjKJqvUTWKD9FqN",
     "3JQRMn5sFjE7M3YPdCkL8KZKvN2qnhXTxmRYJWPsZKaB" >>

\* One round of the loop of hashAddress: hash = (hash << 5) - hash + char, then
\* hash & hash (ToInt32). h is the unsigned 32-bit value as [hi, lo], 16 bits each.
HashStep(h, char) ==
  LET t == 31 * h.lo + char
  IN  [hi |-> (31 * h.hi + t \div 65536) % 65536, lo |-> t % 65536]

\* a variant that reads the bits as an unsigned value (hash >>> 0)
Abs32Unsigned(u) == u

\* Math.abs of the signed 32-bit value whose bits are u, again as [hi, lo]
\* (hi = 32768, lo = 0 is Math.abs(-2^31) = 2^31)
Abs32(u) ==
  IF u.hi < 32768 THEN u
  ELSE IF u.lo = 0 THEN [hi |-> 65536 - u.hi, lo |-> 0]
  ELSE [hi |-> 65535 - u.hi, lo |-> 65536 - u.lo]

\* hashAddress
hashAddress(address) ==
  Abs32(FoldLeft(HashStep, [hi |-> 0, lo |-> 0], CharCodes(address)))

\* deterministicSeed % 30
SeedMod(h, m) == ((h.hi % m) * (65536 % m) + (h.lo % m)) % m

NoDetails ==
  [sanctionLists |-> <<>>, flags |-> <<>>, linkedToMixer |-> FALSE, linkedToExploit |-> FALSE]

\* a variant whose mock verdict for an address of no fixture is seeded by the time
\* of the call as well as by the address
checkRiskSeededByTime(address, now) ==
  IF address = "" \/ Len(CharCodes(address)) < 32 \/ Len(CharCodes(address)) > 44
  THEN [address |-> address, status |-> "Unknown", riskScore |-> 0, checkedAt |-> now,
        details |-> [NoDetails EXCEPT !.flags = <<"Invalid address format">>]]
  ELSE IF InSeq(MOCK_SANCTIONED_ADDRESSES, address)
  THEN [address |-> address, status |-> "Sanctioned", riskScore |-> 100, checkedAt |-> now,
        details |-> [sanctionLists |-> <<"OFAC SDN", "EU Sanctions List">>,
                     flags |-> <<"Linked to illicit activities", "On government watchlist">>,
                     linkedToMixer |-> TRUE, linkedToExploit |-> FALSE]]
  ELSE IF InSeq(MOCK_FLAGGED_ADDRESSES, address)
  THEN [address |-> address, status |-> "Flagged", riskScore |-> 65, checkedAt |-> now,
        details |-> [NoDetails EXCEPT
                       !.flags = <<"Suspicious activity patterns", "Under investigation">>]]
  ELSE [address |-> address,
        status |-> IF (SeedMod(hashAddress(address), 30) + now) % 2 = 1
                   THEN "Flagged" ELSE "Clean",
        riskScore |-> (SeedMod(hashAddress(address), 30) + now) % 30, checkedAt |-> now,
        details |-> NoDetails]

\* checkRisk(address); now is the value `new Date()` reads
checkRisk(address, now) ==
  IF address = "" \/ Len(CharCodes(address)) < 32 \/ Len(CharCodes(address)) > 44
  THEN [address |-> address, status |-> "Unknown", riskScore |-> 0, checkedAt |-> now,
        details |-> [NoDetails EXCEPT !.flags = <<"Invalid address format">>]]
  ELSE IF InSeq(MOCK_SANCTIONED_ADDRESSES, address)
  THEN [address |-> address, status |-> "Sanctioned", riskScore |-> 100, checkedAt |-> now,
        details |-> [sanctionLists |-> <<"OFAC SDN", "EU Sanctions List">>,
                     flags |-> <<"Linked to illicit activities", "On government watchlist">>,
                     linkedToMixer |-> TRUE, linkedToExploit |-> FALSE]]
  ELSE IF InSeq(MOCK_FLAGGED_ADDRESSES, address)
  THEN [address |-> address, status |-> "Flagged", riskScore |-> 65, checkedAt |-> now,
        details |-> [NoDetails EXCEPT
                       !.flags = <<"Suspicious activity patterns", "Under investigation">>]]
  ELSE [address |-> address, status |-> "Clean",
        riskScore |-> SeedMod(hashAddress(address), 30), checkedAt |-> now,
        details |-> NoDetails]

(***************************************************************************)
(* services/helius.ts                                                      *)
(***************************************************************************)
\* addressCounts.set(key, (addressCounts.get(key) ?? 0) + 1) on a Map kept as a
\* sequence of [address, count] in insertion order
MapIncrement(m, key) ==
  IF \E i \in 1..Len(m) : m[i].address = key
  THEN [i \in 1..Len(m) |->
          IF m[i].address = key THEN [m[i] EXCEPT !.count = @ + 1] ELSE m[i]]
  ELSE Append(m, [address |-> key, count |-> 1])

\* the counterparty of a transfer as both detectors compute it
OtherAddress(transfer, wallet) ==
  IF transfer.fromUserAccount = wallet
  THEN transfer.toUserAccount
  ELSE transfer.fromUserAccount

\* a `null` among the entries of an array of the indexer's answer
NULL == [null |-> TRUE]

IsNull(entry) == "null" \in DOMAIN entry

HasNull(entries) == \E i \in 1..Len(entries) : IsNull(entries[i])

\* the entries a `for ... of` loop has seen before it takes a null
BeforeNull(entries) ==
  SubSeq(entries, 1, Cardinality({i \in 1..Len(entries) :
                                   \A j \in 1..i : ~IsNull(entries[j])}))

\* `transfer.fromUserAccount` is a TypeError for a null transfer, native or token
TransfersThrow(txs) ==
  \E i \in 1..Len(txs) : HasNull(txs[i].nativeTransfers) \/ HasNull(txs[i].tokenTransfers)

\* one transaction's native transfers followed by its token transfers
TransfersOf(tx) ==
  [i \in 1..(Len(tx.nativeTransfers) + Len(tx.tokenTransfers)) |->
     IF i <= Len(tx.nativeTransfers)
     THEN tx.nativeTransfers[i]
     ELSE tx.tokenTransfers[i - Len(tx.nativeTransfers)]]

\* HeliusService.getInteractingAddresses
getInteractingAddresses(txs, wallet) ==
  LET CountTransfer(m, transfer) ==
        LET otherAddress == OtherAddress(transfer, wallet)
        IN  IF otherAddress # "" /\ otherAddress # wallet
            THEN MapIncrement(m, otherAddress)
            ELSE m
      CountTx(m, tx) == FoldLeft(CountTransfer, m, TransfersOf(tx))
  IN  FoldLeft(CountTx, <<>>, txs)

(***************************************************************************)
(* detectors/cex.ts                                                        *)
(***************************************************************************)
\* findCEXAddress: <<>> for null, <<cex>> for the first registry entry found
findCEXAddress(address) ==
  IF address = "" THEN <<>>
  ELSE IF \E i \in 1..Len(KNOWN_CEX) : KNOWN_CEX[i].address = address
  THEN << KNOWN_CEX[CHOOSE i \in 1..Len(KNOWN_CEX) :
                      /\ KNOWN_CEX[i].address = address
                      /\ \A j \in 1..(i - 1) : KNOWN_CEX[j].address # address] >>
  ELSE <<>>

LAMPORT_UNITS_PER_SOL == 10

\* a variant that rounds down: Math.floor(transfer.amount / 1e9)
LamportsToSolFloor(amount) == [whole |-> amount \div LAMPORT_UNITS_PER_SOL, frac |-> 0]

\* transfer.amount / 1e9, as a decimal number [whole, frac] with one digit
LamportsToSol(amount) ==
  [whole |-> amount \div LAMPORT_UNITS_PER_SOL, frac |-> amount % LAMPORT_UNITS_PER_SOL]

\* a token amount, carried as it is
TokenAmount(n) == [whole |-> n, frac |-> 0]

\* exchangesSet.add(name)
SetAdd(s, v) == IF InSeq(s, v) THEN s ELSE Append(s, v)

CEXRecord(tx, cex, direction, amount) ==
  [signature |-> tx.signature, timestamp |-> tx.timestamp,
   exchangeName |-> cex.name, exchangeAddress |-> cex.address,
   direction |-> direction, amount |-> amount]

\* the body of both transfer loops; amount is <<the record's amount>>
CEXScanTransfer(acc, tx, transfer, amount, wallet) ==
  LET cexMatch == findCEXAddress(transfer.fromUserAccount)
      acc1 == IF cexMatch # <<>> /\ transfer.toUserAccount = wallet
              THEN [acc EXCEPT
                      !.deposits = Append(@, CEXRecord(tx, cexMatch[1], "deposit", amount)),
                      !.exchangesSet = SetAdd(@, cexMatch[1].name)]
              ELSE acc
      cexMatchTo == findCEXAddress(transfer.toUserAccount)
  IN  IF cexMatchTo # <<>> /\ transfer.fromUserAccount = wallet
      THEN [acc1 EXCEPT
              !.withdrawals = Append(@, CEXRecord(tx, cexMatchTo[1], "withdrawal", amount)),
              !.exchangesSet = SetAdd(@, cexMatchTo[1].name)]
      ELSE acc1

\* the fee payer rule
CEXScanFeePayer(acc, tx, wallet) ==
  LET feePayerMatch == findCEXAddress(tx.feePayer)
      alreadyTracked == \E i \in 1..Len(acc.deposits) : acc.deposits[i].signature = tx.signature
  IN  IF feePayerMatch # <<>> /\ tx.feePayer # wallet /\ ~alreadyTracked
      THEN [acc EXCEPT
              !.deposits = Append(@, CEXRecord(tx, feePayerMatch[1], "deposit", <<>>)),
              !.exchangesSet = SetAdd(@, feePayerMatch[1].name)]
      ELSE acc

\* one round of `for (const tx of transactions)`
CEXScanTx(acc, tx, wallet) ==
  LET Native(a, transfer) ==
        CEXScanTransfer(a, tx, transfer, <<LamportsToSol(transfer.amount)>>, wallet)
      Token(a, transfer) ==
        CEXScanTransfer(a, tx, transfer, <<TokenAmount(transfer.tokenAmount)>>, wallet)
      afterNative == FoldLeft(Native, acc, tx.nativeTransfers)
      afterToken == FoldLeft(Token, afterNative, tx.tokenTransfers)
  IN  CEXScanFeePayer(afterToken, tx, wallet)

Min(a, b) == IF a <= b THEN a ELSE b
Max(a, b) == IF a >= b THEN a ELSE b

\* a variant without the cap of 50
CEXRiskContributionUncapped(deposits, withdrawals) ==
  LET depositRisk == Len(deposits) * 15
      withdrawalRisk == Len(withdrawals) * 10
  IN  depositRisk + withdrawalRisk

\* a variant with Math.max for Math.min
CEXRiskContributionAtLeast(deposits, withdrawals) ==
  LET depositRisk == Len(deposits) * 15
      withdrawalRisk == Len(withdrawals) * 10
  IN  Max(depositRisk + withdrawalRisk, 50)

\* the risk contribution of the exchange detector
CEXRiskContribution(deposits, withdrawals) ==
  LET depositRisk == Len(deposits) * 15
      withdrawalRisk == Len(withdrawals) * 10
  IN  Min(depositRisk + withdrawalRisk, 50)

\* the result built after the loop
CEXResult(acc) ==
  [detected |-> Len(acc.deposits) > 0 \/ Len(acc.withdrawals) > 0,
   deposits |-> acc.deposits,
   withdrawals |-> acc.withdrawals,
   totalCEXTransactions |-> Len(acc.deposits) + Len(acc.withdrawals),
   exchangesInvolved |-> acc.exchangesSet,
   riskContribution |-> CEXRiskContribution(acc.deposits, acc.withdrawals)]

\* the result of the catch block, and of analyzeWallet's error report
CEXDefault ==
  [detected |-> FALSE, deposits |-> <<>>, withdrawals |-> <<>>,
   totalCEXTransactions |-> 0, exchangesInvolved |-> <<>>, riskContribution |-> 0]

\* the try block, for transactions without a null transfer
CEXScan(txs, wallet) ==
  LET Scan(acc, tx) == CEXScanTx(acc, tx, wallet)
  IN  CEXResult(FoldLeft(Scan, [deposits |-> <<>>, withdrawals |-> <<>>,
                                exchangesSet |-> <<>>], txs))

\* what the loops have gone through when the TypeError is thrown: the transactions
\* before the first one with a null transfer, and of this one the transfers before
\* the null (its fee payer is not reached)
ScannedBeforeThrow(txs) ==
  LET k == Cardinality({i \in 1..Len(txs) : ~TransfersThrow(SubSeq(txs, 1, i))}) + 1
  IN  SubSeq(txs, 1, k - 1)
        \o << [txs[k] EXCEPT !.nativeTransfers = BeforeNull(@),
                             !.tokenTransfers = IF HasNull(txs[k].nativeTransfers)
                                                THEN <<>> ELSE BeforeNull(@),
                             !.feePayer = ""] >>

\* a variant whose catch block returns what was collected
detectCEXTransactionsPartial(txs, wallet) ==
  IF TransfersThrow(txs) THEN CEXScan(ScannedBeforeThrow(txs), wallet)
  ELSE CEXScan(txs, wallet)

detectCEXTransactions(txs, wallet) ==
  IF TransfersThrow(txs) THEN CEXDefault
  ELSE CEXScan(txs, wallet)

\* generateCEXWarnings
generateCEXWarnings(result) ==
  [i \in 1..Len(result.deposits) |->
     <<"Direct deposit from ", result.deposits[i].exchangeName, " detected. ",
       "This links your CEX KYC identity to this wallet.">>]
  \o
  [i \in 1..Len(result.withdrawals) |->
     <<"Withdrawal to ", result.withdrawals[i].exchangeName, " detected. ",
       "Your wallet activity is now linked to your exchange account.">>]

\* generateCEXActions
generateCEXActions(result) ==
  (IF Len(result.deposits) > 0
   THEN <<"Consider using Privacy Cash to create a clean wallet for future DeFi activities.",
          "Use intermediate wallets between CEX and your main DeFi wallet.">>
   ELSE <<>>)
  \o
  (IF Len(result.withdrawals) > 0
   THEN <<"Before depositing to CEX, route through an intermediate wallet.",
          "Consider using compliant privacy solutions like Elusiv for future transactions.">>
   ELSE <<>>)
  \o
  (IF Len(result.exchangesInvolved) > 1
   THEN <<"Multiple exchanges linked to this wallet - consider compartmentalizing with separate wallets.">>
   ELSE <<>>)

(***************************************************************************)
(* detectors/clustering.ts                                                 *)
(***************************************************************************)
\* Array.prototype.sort((a, b) => b[1] - a[1]): stable, descending by count
SortByCountDesc(entries) ==
  LET Insert(sorted, e) ==
        LET k == Cardinality({i \in 1..Len(sorted) : sorted[i].count >= e.count})
        IN  SubSeq(sorted, 1, k) \o <<e>> \o SubSeq(sorted, k + 1, Len(sorted))
  IN  FoldLeft(Insert, <<>>, entries)

\* (count / totalInteractions) * 100, kept as the exact fraction num / den
Percentage(count, totalInteractions) == [num |-> count * 100, den |-> totalInteractions]

\* a variant with > for >=
PercentageAbove(p, threshold) == p.num > threshold * p.den

\* percentage >= threshold for one percentage. The double (count / total) * 100
\* compares with 50 as the exact fraction does: 0.5 and 50 are doubles and
\* rounding is monotone.
PercentageAtLeast(p, threshold) == p.num >= threshold * p.den

\* The sums `reduce((sum, a) => sum + a.percentage, 0)` are sums of doubles. For
\* fewer than 30 interactions the double sum of the top 3 (top 5) compares with 80
\* (70) as the exact sum does, except for the count profiles below, whose
\* double sum is 79.99999999999999 where the exact sum is 80.
IEEE_SUM_BELOW_EXACT == { <<15, <<5, 5, 2>> >>, <<15, <<7, 3, 2>> >> }

SumSeq(s) ==
  LET Add(a, b) == a + b
  IN  FoldLeft(Add, 0, s)

\* slice(0, n).reduce(...) >= threshold
TopSumAtLeast(sortedAddresses, n, totalInteractions, threshold) ==
  LET counts == [i \in 1..n |-> sortedAddresses[i].count]
  IN  /\ SumSeq(counts) * 100 >= threshold * totalInteractions
      /\ <<totalInteractions, counts>> \notin IEEE_SUM_BELOW_EXACT

\* a variant whose first rule needs more than half of the interactions
detectPatternAboveHalf(sortedAddresses, totalInteractions) ==
  IF Len(sortedAddresses) = 0 THEN "none"
  ELSE IF PercentageAbove(sortedAddresses[1].percentage, 50) THEN "single_counterparty"
  ELSE IF Len(sortedAddresses) >= 3 /\ TopSumAtLeast(sortedAddresses, 3, totalInteractions, 80)
  THEN "small_cluster"
  ELSE IF Len(sortedAddresses) >= 10 /\ TopSumAtLeast(sortedAddresses, 5, totalInteractions, 70)
  THEN "funnel"
  ELSE "none"

\* detectPattern
detectPattern(sortedAddresses, totalInteractions) ==
  IF Len(sortedAddresses) = 0 THEN "none"
  ELSE IF PercentageAtLeast(sortedAddresses[1].percentage, 50) THEN "single_counterparty"
  ELSE IF Len(sortedAddresses) >= 3 /\ TopSumAtLeast(sortedAddresses, 3, totalInteractions, 80)
  THEN "small_cluster"
  ELSE IF Len(sortedAddresses) >= 10 /\ TopSumAtLeast(sortedAddresses, 5, totalInteractions, 70)
  THEN "funnel"
  ELSE "none"

\* the counting loop of detectClustering: addressCounts and totalInteractions
ClusteringCount(txs, wallet) ==
  LET CountTransfer(acc, transfer) ==
        LET otherAddress == OtherAddress(transfer, wallet)
        IN  IF otherAddress # "" /\ otherAddress # wallet
            THEN [addressCounts |-> MapIncrement(acc.addressCounts, otherAddress),
                  totalInteractions |-> acc.totalInteractions + 1]
            ELSE acc
      CountTx(acc, tx) == FoldLeft(CountTransfer, acc, TransfersOf(tx))
  IN  FoldLeft(CountTx, [addressCounts |-> <<>>, totalInteractions |-> 0], txs)

ZeroPercentage == [num |-> 0, den |-> 1]

\* the risk contribution of a clustering verdict
ClusteringRiskContribution(clusteringDetected, pattern) ==
  IF ~clusteringDetected THEN 0
  ELSE IF pattern = "single_counterparty" THEN POINT_DEDUCTIONS.CLUSTER_DETECTED
  ELSE IF pattern = "wash_trading" THEN POINT_DEDUCTIONS.CLUSTER_DETECTED + 10
  ELSE IF pattern = "small_cluster" THEN (POINT_DEDUCTIONS.CLUSTER_DETECTED * 7) \div 10
  ELSE IF pattern = "funnel" THEN (POINT_DEDUCTIONS.CLUSTER_DETECTED * 5) \div 10
  ELSE POINT_DEDUCTIONS.HIGH_FREQUENCY_SAME_ADDR

\* the result detectClustering returns below MIN_TRANSACTIONS_FOR_PATTERN
ClusteringTooFew(totalUniqueAddresses, totalTransactions) ==
  [detected |-> FALSE, clusteringPercentage |-> ZeroPercentage,
   topAddresses |-> <<>>, dominantAddress |-> <<>>,
   totalUniqueAddresses |-> totalUniqueAddresses,
   totalTransactions |-> totalTransactions,
   riskContribution |-> 0, pattern |-> "none"]

\* Array.from(addressCounts.entries()).sort(...).map(...)
SortedAddresses(sorted, totalInteractions) ==
  [i \in 1..Len(sorted) |->
     [address |-> sorted[i].address, count |-> sorted[i].count,
      percentage |-> Percentage(sorted[i].count, totalInteractions)]]

\* the verdict and the result, from topAddresses and pattern on
ClusteringResult(topAddresses, pattern, totalUniqueAddresses, totalTransactions) ==
  LET dominantAddress == IF Len(topAddresses) > 0 THEN <<topAddresses[1].address>> ELSE <<>>
      highestPercentage ==
        IF Len(topAddresses) > 0 THEN topAddresses[1].percentage ELSE ZeroPercentage
      clusteringDetected ==
        \/ PercentageAtLeast(highestPercentage, ANALYSIS_CONFIG.CLUSTER_THRESHOLD_PERCENTAGE)
        \/ pattern # "none"
  IN  [detected |-> clusteringDetected, clusteringPercentage |-> highestPercentage,
       topAddresses |-> topAddresses, dominantAddress |-> dominantAddress,
       totalUniqueAddresses |-> totalUniqueAddresses,
       totalTransactions |-> totalTransactions,
       riskContribution |-> ClusteringRiskContribution(clusteringDetected, pattern),
       pattern |-> pattern]

\* detectClustering from sortedAddresses on
ClusteringOfSorted(sortedAddresses, totalInteractions, totalTransactions) ==
  ClusteringResult(SubSeq(sortedAddresses, 1, Min(5, Len(sortedAddresses))),
                   detectPattern(sortedAddresses, totalInteractions),
                   Len(sortedAddresses), totalTransactions)

\* a variant that takes the shares of the number of transactions
ClusteringOfCountsPerTransaction(counted, totalTransactions) ==
  IF counted.totalInteractions < ANALYSIS_CONFIG.MIN_TRANSACTIONS_FOR_PATTERN
  THEN ClusteringTooFew(Len(counted.addressCounts), totalTransactions)
  ELSE ClusteringOfSorted(SortedAddresses(SortByCountDesc(counted.addressCounts),
                                          totalTransactions),
                          totalTransactions, totalTransactions)

\* a variant without the early return below MIN_TRANSACTIONS_FOR_PATTERN
ClusteringOfCountsUnguarded(counted, totalTransactions) ==
  ClusteringOfSorted(SortedAddresses(SortByCountDesc(counted.addressCounts),
                                     counted.totalInteractions),
                     counted.totalInteractions, totalTransactions)

\* detectClustering after its counting loop
ClusteringOfCounts(counted, totalTransactions) ==
  IF counted.totalInteractions < ANALYSIS_CONFIG.MIN_TRANSACTIONS_FOR_PATTERN
  THEN ClusteringTooFew(Len(counted.addressCounts), totalTransactions)
  ELSE ClusteringOfSorted(SortedAddresses(SortByCountDesc(counted.addressCounts),
                                          counted.totalInteractions),
                          counted.totalInteractions, totalTransactions)

\* the result of the catch block
ClusteringCatch(totalTransactions) ==
  [detected |-> FALSE, clusteringPercentage |-> ZeroPercentage, topAddresses |-> <<>>,
   dominantAddress |-> <<>>, totalUniqueAddresses |-> 0,
   totalTransactions |-> totalTransactions, riskContribution |-> 0, pattern |-> "none"]

detectClustering(txs, wallet) ==
  IF TransfersThrow(txs) THEN ClusteringCatch(Len(txs))
  ELSE ClusteringOfCounts(ClusteringCount(txs, wallet), Len(txs))

\* analyzeWallet's error report (the catch block of detectClustering differs only
\* in totalTransactions)
ClusteringDefault ==
  [detected |-> FALSE, clusteringPercentage |-> ZeroPercentage, topAddresses |-> <<>>,
   dominantAddress |-> <<>>, totalUniqueAddresses |-> 0, totalTransactions |-> 0,
   riskContribution |-> 0, pattern |-> "none"]

\* timeline.sent.push(t) / timeline.received.push(t) on the Map addressTimelines
TimelinePush(m, key, type, t) ==
  LET entry == IF \E i \in 1..Len(m) : m[i].address = key
               THEN m[CHOOSE i \in 1..Len(m) : m[i].address = key]
               ELSE [address |-> key, sent |-> <<>>, received |-> <<>>]
      pushed == IF type = "sent"
                THEN [entry EXCEPT !.sent = Append(@, t)]
                ELSE [entry EXCEPT !.received = Append(@, t)]
  IN  IF \E i \in 1..Len(m) : m[i].address = key
      THEN [i \in 1..Len(m) |-> IF m[i].address = key THEN pushed ELSE m[i]]
      ELSE Append(m, pushed)

\* the first loop of detectWashTrading
WashTimelines(txs, wallet) ==
  LET ScanTx(m, tx) ==
        LET ScanTransfer(m0, transfer) ==
              LET m1 == IF transfer.fromUserAccount = wallet /\ transfer.toUserAccount # ""
                        THEN TimelinePush(m0, transfer.toUserAccount, "sent", tx.timestamp)
                        ELSE m0
              IN  IF transfer.toUserAccount = wallet /\ transfer.fromUserAccount # ""
                  THEN TimelinePush(m1, transfer.fromUserAccount, "received", tx.timestamp)
                  ELSE m1
        IN  FoldLeft(ScanTransfer, m, tx.nativeTransfers)
  IN  FoldLeft(ScanTx, <<>>, txs)

\* Array.prototype.sort((a, b) => a.t - b.t): stable, ascending by t
SortByTime(entries) ==
  LET Insert(sorted, e) ==
        LET k == Cardinality({i \in 1..Len(sorted) : sorted[i].t <= e.t})
        IN  SubSeq(sorted, 1, k) \o <<e>> \o SubSeq(sorted, k + 1, Len(sorted))
  IN  FoldLeft(Insert, <<>>, entries)

\* the entries of one timeline, sorted
AllTimestamps(timeline) ==
  SortByTime([i \in 1..Len(timeline.sent) |-> [t |-> timeline.sent[i], type |-> "sent"]]
             \o [i \in 1..Len(timeline.received) |->
                   [t |-> timeline.received[i], type |-> "received"]])

\* the loop counting alternations
CountAlternations(allTimestamps) ==
  Cardinality({i \in 2..Len(allTimestamps) :
                 allTimestamps[i].type # allTimestamps[i - 1].type})

Alternations(timeline) == CountAlternations(AllTimestamps(timeline))

\* a variant that flags from 2 alternations on
WashCheckFromTwo(pairs, timeline, alternations) ==
  IF alternations >= 2
  THEN Append(pairs, [address |-> timeline.address,
                      sendCount |-> Len(timeline.sent),
                      receiveCount |-> Len(timeline.received),
                      alternations |-> alternations])
  ELSE pairs

\* one round of `for (const [address, timeline] of addressTimelines)`
WashCheck(pairs, timeline, alternations) ==
  IF alternations >= 3
  THEN Append(pairs, [address |-> timeline.address,
                      sendCount |-> Len(timeline.sent),
                      receiveCount |-> Len(timeline.received),
                      alternations |-> alternations])
  ELSE pairs

WashResult(pairs) == [detected |-> Len(pairs) > 0, pairs |-> pairs]

\* the loop of detectWashTrading reads the native transfers only
WashThrows(txs) == \E i \in 1..Len(txs) : HasNull(txs[i].nativeTransfers)

\* the result of the catch block
WashCatch == [detected |-> FALSE, pairs |-> <<>>]

detectWashTrading(txs, wallet) ==
  LET Check(pairs, timeline) ==
        IF Len(timeline.sent) >= 2 /\ Len(timeline.received) >= 2
        THEN WashCheck(pairs, timeline, Alternations(timeline))
        ELSE pairs
  IN  IF WashThrows(txs) THEN WashCatch
      ELSE WashResult(FoldLeft(Check, <<>>, WashTimelines(txs, wallet)))

\* percentage.toFixed(1): the nearest tenth, the larger one of two. For fewer than
\* 30 interactions the double is a tie exactly when the fraction is.
ToFixed1(p) ==
  LET tenths == (20 * p.num + p.den) \div (2 * p.den)
  IN  ToString(tenths \div 10) \o "." \o ToString(tenths % 10)

\* generateClusteringWarnings
generateClusteringWarnings(result) ==
  IF ~result.detected THEN <<>>
  ELSE CASE result.pattern = "single_counterparty" ->
              << <<ToFixed1(result.clusteringPercentage),
                   "% of transactions are with a single address. ",
                   "This creates a clear link between your wallets.">> >>
         [] result.pattern = "small_cluster" ->
              << <<"Your transactions are concentrated among just ",
                   ToString(Len(result.topAddresses)), " addresses. ",
                   "This clustering pattern can be used to link your wallets.">> >>
         [] result.pattern = "wash_trading" ->
              << <<"Suspicious back-and-forth transaction pattern detected. ",
                   "This behavior is easily identifiable on-chain.">> >>
         [] result.pattern = "funnel" ->
              << <<"Funnel pattern detected: many sources funneling to few destinations. ",
                   "This pattern suggests wallet consolidation.">> >>
         [] OTHER -> <<>>

\* generateClusteringActions
generateClusteringActions(result) ==
  IF ~result.detected THEN <<>>
  ELSE <<"Use Radr Labs to break wallet clustering patterns and obfuscate your transaction graph.">>
       \o (IF result.pattern = "single_counterparty"
           THEN <<"Diversify your transaction patterns - use multiple intermediate wallets.">>
           ELSE <<>>)
       \o (IF result.pattern = "wash_trading"
           THEN <<"Avoid repetitive back-and-forth transactions with the same address.">>
           ELSE <<>>)
       \o <<"Consider using Elusiv for private transactions that don't create linkable patterns.">>

(***************************************************************************)
(* detectors/assets.ts                                                     *)
(* The optional `name` of an NFTAsset (extractNFTName) is left out: nothing *)
(* reads it.                                                               *)
(***************************************************************************)
POAP_INDICATORS ==
  <<"poap", "proof of attendance", "event", "badge", "attendance",
    "participated", "hackathon", "conference", "meetup">>

SNS_PROGRAM_ID == "namesLPneVptA9Z5rqUDD9tMTWEJwofgaYwp8cawRkX"
BONFIDA_PROGRAM_ID == "jCebN34bUfdeUYJT13J1yG16XWQpt5PDx6Mse9GUqhR"

\* indicators.some(indicator => text.includes(indicator))
IncludesAny(text, indicators) ==
  \E i \in 1..Len(indicators) : Includes(text, CharCodes(indicators[i]))

\* isPOAPorBadge
isPOAPorBadge(description) ==
  IncludesAny(ToLowerCase(CharCodes(description)), POAP_INDICATORS)

\* the tests of isSOLDomainTransaction on the description
DomainDescription(tx) ==
  LET description == ToLowerCase(CharCodes(tx.description))
  IN  \/ Includes(description, CharCodes(".sol"))
      \/ Includes(description, CharCodes("domain"))
      \/ Includes(description, CharCodes("name service"))

\* the loop of isSOLDomainTransaction returns true on one of the accounts
DomainAccount(accountData) ==
  \E i \in 1..Len(accountData) :
    \/ accountData[i].account = SNS_PROGRAM_ID
    \/ accountData[i].account = BONFIDA_PROGRAM_ID

\* isSOLDomainTransaction, where it returns
isSOLDomainTransaction(tx) ==
  \/ DomainDescription(tx)
  \/ DomainAccount(BeforeNull(tx.accountData))

\* `account.account` is a TypeError for a null account, if the loop gets there
DomainThrows(tx) ==
  /\ ~DomainDescription(tx)
  /\ HasNull(tx.accountData)
  /\ ~DomainAccount(BeforeNull(tx.accountData))

\* `transfer.toUserAccount` is a TypeError for a null token transfer
AssetsThrows(txs) ==
  \E i \in 1..Len(txs) : DomainThrows(txs[i]) \/ HasNull(txs[i].tokenTransfers)

\* the character class [a-zA-Z0-9_-]
DomainChar(c) == c \in (97..122) \cup (65..90) \cup (48..57) \cup {95, 45}

\* d[i..k] is a run of [a-zA-Z0-9_-] that ".sol" follows
DomainMatch(d, i, k) ==
  /\ \A j \in i..k : DomainChar(d[j])
  /\ k + 4 <= Len(d)
  /\ SubSeq(d, k + 1, k + 4) = CharCodes(".sol")

\* where /([a-zA-Z0-9_-]+\.sol)/ matches in d
DomainStarts(d) == {i \in 1..Len(d) : \E k \in i..Len(d) : DomainMatch(d, i, k)}

\* the match that starts at i
DomainFrom(d, i) == SubSeq(d, i, (CHOOSE k \in i..Len(d) : DomainMatch(d, i, k)) + 4)

\* the leftmost match, <<>> for null
LeftmostDomain(d, starts) ==
  IF starts = {} THEN <<>>
  ELSE << DomainFrom(d, CHOOSE i \in starts : \A y \in starts : i <= y) >>

\* extractDomainName: description.match(...)[1], as its code units
extractDomainName(tx) ==
  LeftmostDomain(CharCodes(tx.description), DomainStarts(CharCodes(tx.description)))

HasMint(assets, mint) == \E i \in 1..Len(assets) : assets[i].mint = mint

\* the NFT events of one transaction
AssetsScanEvents(acc, tx, wallet, isPOAP) ==
  LET Event(a, nft) ==
        IF isPOAP
        THEN [a EXCEPT !.poapsDetected =
                Append(@, [mint |-> nft.mint, type |-> "poap", receivedTimestamp |-> tx.timestamp])]
        ELSE [a EXCEPT !.nftsDetected =
                Append(@, [mint |-> nft.mint, type |-> "nft", receivedTimestamp |-> tx.timestamp])]
  IN  IF /\ tx.events.nft # <<>>
         /\ \/ tx.events.nft[1].buyer = wallet
            \/ Includes(ToLowerCase(CharCodes(tx.description)), CharCodes("received"))
      THEN FoldLeft(Event, acc, tx.events.nft[1].nfts)
      ELSE acc

\* the domain of one transaction
AssetsScanDomain(acc, tx, domainName) ==
  IF /\ isSOLDomainTransaction(tx)
     /\ domainName # <<>>
     /\ ~InSeq(acc.solDomainsDetected, domainName[1])
  THEN [acc EXCEPT !.solDomainsDetected = Append(@, domainName[1])]
  ELSE acc

\* the token transfers of one transaction
AssetsScanTransfers(acc, tx, wallet, isPOAP) ==
  LET Transfer(a, transfer) ==
        IF /\ transfer.toUserAccount = wallet
           /\ transfer.tokenAmount = 1
           /\ transfer.tokenStandard = "NonFungible"
        THEN IF isPOAP
             THEN IF ~HasMint(a.poapsDetected, transfer.mint)
                  THEN [a EXCEPT !.poapsDetected =
                          Append(@, [mint |-> transfer.mint, type |-> "poap",
                                     receivedTimestamp |-> tx.timestamp])]
                  ELSE a
             ELSE IF ~HasMint(a.nftsDetected, transfer.mint)
                  THEN [a EXCEPT !.nftsDetected =
                          Append(@, [mint |-> transfer.mint, type |-> "nft",
                                     receivedTimestamp |-> tx.timestamp])]
                  ELSE a
        ELSE a
  IN  FoldLeft(Transfer, acc, tx.tokenTransfers)

\* one round of `for (const tx of transactions)`, isPOAP being
\* isPOAPorBadge(tx.description)
AssetsScanTxWith(acc, tx, wallet, isPOAP) ==
  AssetsScanTransfers(
    AssetsScanDomain(AssetsScanEvents(acc, tx, wallet, isPOAP), tx, extractDomainName(tx)),
    tx, wallet, isPOAP)

AssetsScanTx(acc, tx, wallet) ==
  AssetsScanTxWith(acc, tx, wallet, isPOAPorBadge(tx.description))

\* calculateExposureLevel
calculateExposureLevel(nftCount, poapCount, domainCount) ==
  LET totalScore == nftCount + (poapCount * 2) + (domainCount * 3)
  IN  IF totalScore = 0 THEN "none"
      ELSE IF totalScore <= 2 THEN "low"
      ELSE IF totalScore <= 5 THEN "medium"
      ELSE "high"

\* a variant without the cap
AssetsRiskContributionUncapped(poapsDetected, solDomainsDetected) ==
  Len(poapsDetected) * POINT_DEDUCTIONS.NFT_POAP_EXPOSED
    + Len(solDomainsDetected) * POINT_DEDUCTIONS.SOL_DOMAIN_EXPOSED

\* the risk contribution of the identity-asset detector
AssetsRiskContribution(poapsDetected, solDomainsDetected) ==
  Min(Len(poapsDetected) * POINT_DEDUCTIONS.NFT_POAP_EXPOSED
        + Len(solDomainsDetected) * POINT_DEDUCTIONS.SOL_DOMAIN_EXPOSED,
      30)

\* the result built after the loop
AssetsResult(acc) ==
  [detected |-> \/ Len(acc.nftsDetected) > 0
                \/ Len(acc.poapsDetected) > 0
                \/ Len(acc.solDomainsDetected) > 0,
   nftsDetected |-> acc.nftsDetected,
   solDomainsDetected |-> acc.solDomainsDetected,
   poapsDetected |-> acc.poapsDetected,
   identityExposureLevel |->
     calculateExposureLevel(Len(acc.nftsDetected), Len(acc.poapsDetected),
                            Len(acc.solDomainsDetected)),
   riskContribution |-> AssetsRiskContribution(acc.poapsDetected, acc.solDomainsDetected)]

\* the result of the catch block, and of analyzeWallet's error report
AssetsDefault ==
  [detected |-> FALSE, nftsDetected |-> <<>>, solDomainsDetected |-> <<>>,
   poapsDetected |-> <<>>, identityExposureLevel |-> "none", riskContribution |-> 0]

detectIdentityAssets(txs, wallet) ==
  LET Scan(acc, tx) == AssetsScanTx(acc, tx, wallet)
  IN  IF AssetsThrows(txs) THEN AssetsDefault
      ELSE AssetsResult(FoldLeft(Scan, [nftsDetected |-> <<>>, solDomainsDetected |-> <<>>,
                                        poapsDetected |-> <<>>], txs))

\* generateAssetWarnings
generateAssetWarnings(result) ==
  (IF Len(result.poapsDetected) > 0
   THEN << <<ToString(Len(result.poapsDetected)), " POAPs/event badges detected. ",
             "These can reveal your real-world identity and event attendance.">> >>
   ELSE <<>>)
  \o
  [i \in 1..Len(result.solDomainsDetected) |->
     <<".sol domain ", ToString(result.solDomainsDetected[i]), " linked to this wallet. ",
       "Domains are public and can deanonymize your wallet.">>]
  \o
  (IF Len(result.nftsDetected) >= 5
   THEN << <<ToString(Len(result.nftsDetected)), " NFTs detected. ",
             "NFT ownership patterns can be used for fingerprinting.">> >>
   ELSE <<>>)

\* generateAssetActions
generateAssetActions(result) ==
  (IF Len(result.poapsDetected) > 0
   THEN <<"Transfer POAPs and event badges to a separate public-facing wallet.">>
   ELSE <<>>)
  \o
  (IF Len(result.solDomainsDetected) > 0
   THEN <<"Use a dedicated public wallet for .sol domains, separate from your DeFi wallet.">>
   ELSE <<>>)
  \o
  (IF result.identityExposureLevel = "high"
   THEN <<"Consider creating a new anonymous wallet for privacy-sensitive activities.">>
   ELSE <<>>)

(***************************************************************************)
(* engine.ts: the risk aggregator                                          *)
(***************************************************************************)
\* the alphabet of /^[1-9A-HJ-NP-Za-km-z]{32,44}$/
Base58Char(c) ==
  c \in (49..57) \cup (65..72) \cup (74..78) \cup (80..90) \cup (97..107) \cup (109..122)

\* /^[1-9A-HJ-NP-Za-km-z]{32,44}$/.test(...)
AddressPattern(c) == Len(c) >= 32 /\ Len(c) <= 44 /\ \A i \in 1..Len(c) : Base58Char(c[i])

\* a variant that checks the length and not the alphabet
isValidSolanaAddressByLength(address) ==
  Len(CharCodes(address)) >= 32 /\ Len(CharCodes(address)) <= 44

\* isValidSolanaAddress
isValidSolanaAddress(address) == AddressPattern(CharCodes(address))

\* a variant without the lower bound: score = Math.min(100, score)
ClampScoreAbove(score) == Min(100, score)

\* score = Math.max(0, Math.min(100, score))
ClampScore(score) == Max(0, Min(100, score))

\* one `if (...) { score -= points; deductions.push({reason, points}) }`
Deduct(s, trigger, reason, points) ==
  IF trigger
  THEN [score |-> s.score - points,
        deductions |-> Append(s.deductions, [reason |-> reason, points |-> points])]
  ELSE s

\* a variant without the `else`: a sanctioned wallet is also deducted as a flagged one
ComplianceDeductionNoElse(s, status) ==
  LET s1 == Deduct(s, status = "Sanctioned", <<"Wallet on sanctions list">>, 50)
  IN  Deduct(s1, status # "Clean", <<"Wallet flagged for suspicious activity">>, 25)

\* the two branches of the wallet-compliance deduction
ComplianceDeduction(s, status) ==
  IF status = "Sanctioned" THEN Deduct(s, TRUE, <<"Wallet on sanctions list">>, 50)
  ELSE IF status = "Flagged"
  THEN Deduct(s, TRUE, <<"Wallet flagged for suspicious activity">>, 25)
  ELSE s

\* a variant without the cap of 40
SanctionedPenaltyUncapped(n) == n * 20

\* the penalty for sanctioned counterparties
SanctionedPenalty(n) == Min(n * 20, 40)

\* a variant that counts the flagged counterparties with the sanctioned ones
calculatePrivacyScoreCountingFlagged(input) ==
  LET s0 == [score |-> 100, deductions |-> <<>>]
      s1 == Deduct(s0, input.cexResult.riskContribution > 0,
                   <<"CEX activity (", ToString(input.cexResult.totalCEXTransactions),
                     " transactions)">>,
                   input.cexResult.riskContribution)
      s2 == Deduct(s1, input.clusteringResult.riskContribution > 0,
                   <<"Clustering pattern: ", input.clusteringResult.pattern>>,
                   input.clusteringResult.riskContribution)
      s3 == Deduct(s2, input.assetsResult.riskContribution > 0,
                   <<"Identity-revealing assets">>,
                   input.assetsResult.riskContribution)
      s4 == ComplianceDeduction(s3, input.complianceResult.status)
      n == Len(input.addressRisks.sanctionedAddresses) + Len(input.addressRisks.flaggedAddresses)
      s5 == Deduct(s4, n > 0,
                   <<"Interacted with ", ToString(n), " sanctioned address(es)">>,
                   SanctionedPenalty(n))
      s6 == Deduct(s5, input.washTradingDetected, <<"Wash trading pattern detected">>, 15)
  IN  [score |-> ClampScore(s6.score), deductions |-> s6.deductions]

\* calculatePrivacyScore
calculatePrivacyScore(input) ==
  LET s0 == [score |-> 100, deductions |-> <<>>]
      s1 == Deduct(s0, input.cexResult.riskContribution > 0,
                   <<"CEX activity (", ToString(input.cexResult.totalCEXTransactions),
                     " transactions)">>,
                   input.cexResult.riskContribution)
      s2 == Deduct(s1, input.clusteringResult.riskContribution > 0,
                   <<"Clustering pattern: ", input.clusteringResult.pattern>>,
                   input.clusteringResult.riskContribution)
      s3 == Deduct(s2, input.assetsResult.riskContribution > 0,
                   <<"Identity-revealing assets">>,
                   input.assetsResult.riskContribution)
      s4 == ComplianceDeduction(s3, input.complianceResult.status)
      n == Len(input.addressRisks.sanctionedAddresses)
      s5 == Deduct(s4, n > 0,
                   <<"Interacted with ", ToString(n), " sanctioned address(es)">>,
                   SanctionedPenalty(n))
      s6 == Deduct(s5, input.washTradingDetected, <<"Wash trading pattern detected">>, 15)
  IN  [score |-> ClampScore(s6.score), deductions |-> s6.deductions]

\* a variant with strict comparisons: a threshold falls into the tier above it
determineRiskLevelStrict(score) ==
  IF score < SCORE_THRESHOLDS.CRITICAL THEN "CRITICAL"
  ELSE IF score < SCORE_THRESHOLDS.HIGH THEN "HIGH"
  ELSE IF score < SCORE_THRESHOLDS.MEDIUM THEN "MEDIUM"
  ELSE "LOW"

\* determineRiskLevel
determineRiskLevel(score) ==
  IF score <= SCORE_THRESHOLDS.CRITICAL THEN "CRITICAL"
  ELSE IF score <= SCORE_THRESHOLDS.HIGH THEN "HIGH"
  ELSE IF score <= SCORE_THRESHOLDS.MEDIUM THEN "MEDIUM"
  ELSE "LOW"

\* getRiskDescription
getRiskDescription(level) ==
  CASE level = "CRITICAL" ->
         "Critical privacy risk. Your wallet is highly traceable and may be linked to your identity."
    [] level = "HIGH" ->
         "High privacy risk. Significant linkages exist that could compromise your anonymity."
    [] level = "MEDIUM" ->
         "Moderate privacy risk. Some patterns could be used to link your activities."
    [] level = "LOW" ->
         "Good privacy posture. Minimal identifiable patterns detected."

Warnings(messages, severity, category) ==
  [i \in 1..Len(messages) |->
     [severity |-> severity, category |-> category, message |-> messages[i]]]

\* a variant that lists the compliance warnings, the critical ones, first
collectWarningsCriticalFirst(input) ==
  (IF input.complianceResult.status = "Sanctioned"
   THEN Warnings(<< <<"CRITICAL: This wallet is on a sanctions list!">> >>,
                 "critical", "Compliance")
   ELSE IF input.complianceResult.status = "Flagged"
   THEN Warnings(<< <<"This wallet has been flagged for suspicious activity.">> >>,
                 "high", "Compliance")
   ELSE <<>>)
  \o (IF Len(input.addressRisks.sanctionedAddresses) > 0
      THEN Warnings(<< <<"This wallet has interacted with ",
                         ToString(Len(input.addressRisks.sanctionedAddresses)),
                         " sanctioned address(es).">> >>,
                    "critical", "Compliance")
      ELSE <<>>)
  \o Warnings(generateCEXWarnings(input.cexResult), "high", "CEX")
  \o Warnings(generateClusteringWarnings(input.clusteringResult), "medium", "Clustering")
  \o Warnings(generateAssetWarnings(input.assetsResult), "medium", "Identity")

\* collectWarnings
collectWarnings(input) ==
  Warnings(generateCEXWarnings(input.cexResult), "high", "CEX")
  \o Warnings(generateClusteringWarnings(input.clusteringResult), "medium", "Clustering")
  \o Warnings(generateAssetWarnings(input.assetsResult), "medium", "Identity")
  \o (IF input.complianceResult.status = "Sanctioned"
      THEN Warnings(<< <<"CRITICAL: This wallet is on a sanctions list!">> >>,
                    "critical", "Compliance")
      ELSE IF input.complianceResult.status = "Flagged"
      THEN Warnings(<< <<"This wallet has been flagged for suspicious activity.">> >>,
                    "high", "Compliance")
      ELSE <<>>)
  \o (IF Len(input.addressRisks.sanctionedAddresses) > 0
      THEN Warnings(<< <<"This wallet has interacted with ",
                         ToString(Len(input.addressRisks.sanctionedAddresses)),
                         " sanctioned address(es).">> >>,
                    "critical", "Compliance")
      ELSE <<>>)

Recommendations(actions, priority, category, tool) ==
  [i \in 1..Len(actions) |->
     [priority |-> priority, category |-> category, action |-> actions[i], tool |-> tool]]

\* generateRecommendations (a tool is its name; toolUrl goes with it)
generateRecommendations(input) ==
  Recommendations(generateCEXActions(input.cexResult), "high", "CEX",
                  RecommendedTool("CEX_DEPOSIT"))
  \o Recommendations(generateClusteringActions(input.clusteringResult), "medium", "Clustering",
                     RecommendedTool("CLUSTER_DETECTED"))
  \o Recommendations(generateAssetActions(input.assetsResult), "medium", "Identity", <<>>)
  \o (IF input.complianceResult.status # "Clean"
      THEN Recommendations(
             <<"Consult Range Protocol for compliance review and remediation options.">>,
             "high", "Compliance", RecommendedTool("SANCTIONED_INTERACTION"))
      ELSE <<>>)
  \o (IF input.score < 50
      THEN Recommendations(
             <<"Consider creating a fresh wallet and using privacy-preserving tools for future transactions.">>,
             "high", "General", RecommendedTool("GENERAL_PRIVACY"))
      ELSE <<>>)

\* the report analyzeWallet's catch block returns for `new Error(message)`
ErrorReport(address, message, now) ==
  [walletAddress |-> address, analyzedAt |-> now, balance |-> 0,
   transactionsAnalyzed |-> 0, score |-> 0, riskLevel |-> "CRITICAL",
   riskDescription |-> "Analysis failed - unable to assess privacy risk",
   warnings |-> << [severity |-> "critical", category |-> "error",
                    message |-> <<"Analysis error: ">> \o message] >>,
   actions |-> <<>>,
   detectorResults |->
     [cex |-> CEXDefault, clustering |-> ClusteringDefault, assets |-> AssetsDefault,
      compliance |-> [address |-> address, status |-> "Unknown", riskScore |-> 0,
                      checkedAt |-> now, details |-> NoDetails],
      interactingAddressRisks |->
        [sanctionedAddresses |-> <<>>, flaggedAddresses |-> <<>>, totalChecked |-> 0]],
   analysisMetadata |-> [heliusEnabled |-> FALSE, apiLimitReached |-> FALSE,
                         analysisTimeMs |-> now],
   financialExposure |-> [exposedSol |-> 0, exposedUsd |-> 0, cexVolumeSol |-> 0]]

(***************************************************************************)
(* Transactions, as the indexer parses them (ParsedTransaction).           *)
(***************************************************************************)
NativeTransfer(from, to, amount) ==
  [fromUserAccount |-> from, toUserAccount |-> to, amount |-> amount]

TokenTransfer(mint, tokenAmount, from, to, tokenStandard) ==
  [mint |-> mint, tokenAmount |-> tokenAmount, fromUserAccount |-> from,
   toUserAccount |-> to, tokenStandard |-> tokenStandard]

NoEvents == [nft |-> <<>>]

NftEvent(buyer, mints) ==
  [nft |-> << [buyer |-> buyer,
               nfts |-> [i \in 1..Len(mints) |->
                           [mint |-> mints[i], tokenStandard |-> "NonFungible"]]] >>]

Transaction(signature, timestamp, description, feePayer, accounts, tokenTransfers, nativeTransfers, events) ==
  [signature |-> signature, timestamp |-> timestamp, description |-> description,
   feePayer |-> feePayer,
   accountData |-> [i \in 1..Len(accounts) |-> [account |-> accounts[i]]],
   tokenTransfers |-> tokenTransfers, nativeTransfers |-> nativeTransfers,
   events |-> events]

BINANCE == "5tzFkiKscXHK5ZXCGbXZxdw7gTjjD1mBwuoFbhUvuAi9"
COINBASE == "2AQdpHJ2JpcEgPiATUXjQxA8QmafFegfQwSLWSprPicm"
KRAKEN == "FWznbcNXWQuHTawe9RxvQ2LdCENssh12dsznf4RiouN5"
FRIEND == "FriendWallet1xxxxxxxxxxxxxxxxxxxxxxxxxxxxxxx"
RANDOM == "RandomAddr123456789012345678901234567890123"
MINTER == "MinterAddress12345678901234567890123456"
JUPITER == "JUP4Fb2cqiRUcaTHdrPC8h2gNsA2ETXiPDD33WcGuJB"
DEFAULT_TEST_WALLET == "vines1vzrYbzLMRdu58ou5XTby4qAqVRLmqo36NKPTg"
SYSTEM_PROGRAM == "11111111111111111111111111111111"

\* generateMockTransactions(walletAddress); now is what Date.now() reads, and a
\* day the unit of time
generateMockTransactions(wallet, now) ==
  << Transaction("mock_sig_1", now - 1, "Transferred 1 SOL", wallet, <<>>, <<>>,
                 <<NativeTransfer(BINANCE, wallet, 10)>>, NoEvents),
     Transaction("mock_sig_2", now - 2, "Transferred 0.5 SOL", wallet, <<>>, <<>>,
                 <<NativeTransfer(wallet, RANDOM, 5)>>, NoEvents),
     Transaction("mock_sig_3", now - 3, "Received Hackathon POAP Badge", wallet, <<>>,
                 <<TokenTransfer("MockMint123456789012345678901234567890", 1, MINTER, wallet,
                                 "NonFungible")>>,
                 <<>>, NftEvent(wallet, <<"MockMint123456789012345678901234567890">>)) >>

\* HeliusService.getMockTransactions(walletAddress); now is what Date.now() reads,
\* and a day the unit of time
getMockTransactions(wallet, now) ==
  << Transaction("mock_cex_deposit_1", now - 1, "Transferred 2.5 SOL to Binance", wallet,
                 <<>>, <<>>, <<NativeTransfer(wallet, BINANCE, 25)>>, NoEvents),
     Transaction("mock_cex_withdrawal_1", now - 2, "Received 1 SOL from Coinbase", COINBASE,
                 <<>>, <<>>, <<NativeTransfer(COINBASE, wallet, 10)>>, NoEvents),
     Transaction("mock_regular_1", now - 3, "Transferred 0.5 SOL", wallet, <<>>, <<>>,
                 <<NativeTransfer(wallet, FRIEND, 5)>>, NoEvents),
     Transaction("mock_poap_1", now - 4, "Received Solana Hackathon 2024 Attendance Badge",
                 wallet, <<>>,
                 <<TokenTransfer("HackathonBadgeMint123456789012345678901234", 1, MINTER,
                                 wallet, "NonFungible")>>,
                 <<>>, NftEvent(wallet, <<"HackathonBadgeMint123456789012345678901234">>)),
     Transaction("mock_cluster_1", now - 5, "Transferred 0.1 SOL", wallet, <<>>, <<>>,
                 <<NativeTransfer(wallet, FRIEND, 1)>>, NoEvents),
     Transaction("mock_cluster_2", now - 6, "Received 0.2 SOL", FRIEND, <<>>, <<>>,
                 <<NativeTransfer(FRIEND, wallet, 2)>>, NoEvents) >>

\* The transactions the indexer may return for `wallet` in Spec.
PipelineTemplates == 1..12

PipelineTx(k, signature, wallet) ==
  CASE k = 1 ->   \* a withdrawal of 2.5 SOL to an exchange
         Transaction(signature, 10, "Transferred 1 SOL", wallet, <<>>, <<>>,
                     <<NativeTransfer(wallet, BINANCE, 25)>>, NoEvents)
    [] k = 2 ->   \* a deposit from an exchange that also pays the fee
         Transaction(signature, 11, "Transferred 1 SOL", COINBASE, <<>>, <<>>,
                     <<NativeTransfer(COINBASE, wallet, 10)>>, NoEvents)
    [] k = 3 ->   \* a token transfer whose fee an exchange pays
         Transaction(signature, 12, "", KRAKEN, <<>>,
                     <<TokenTransfer("USDC", 3, JUPITER, wallet, "Fungible")>>,
                     <<>>, NoEvents)
    [] k = 4 ->   \* a sanctioned counterparty pays the wallet
         Transaction(signature, 13, "Transferred 0.5 SOL", MOCK_SANCTIONED_ADDRESSES[2], <<>>,
                     <<>>, <<NativeTransfer(MOCK_SANCTIONED_ADDRESSES[2], wallet, 5)>>, NoEvents)
    [] k = 5 ->   \* two sanctioned counterparties in one transaction
         Transaction(signature, 14, "Transferred 1 SOL", wallet, <<>>, <<>>,
                     <<NativeTransfer(MOCK_SANCTIONED_ADDRESSES[2], wallet, 5),
                       NativeTransfer(wallet, MOCK_SANCTIONED_ADDRESSES[3], 5)>>, NoEvents)
    [] k = 6 ->   \* a flagged counterparty sends tokens
         Transaction(signature, 15, "", wallet, <<>>,
                     <<TokenTransfer("USDC", 3, MOCK_FLAGGED_ADDRESSES[2], wallet, "Fungible")>>,
                     <<>>, NoEvents)
    [] k = 7 ->   \* a badge, minted to the wallet
         Transaction(signature, 16, "Received Hackathon POAP Badge", wallet, <<>>,
                     <<TokenTransfer("BadgeMint", 1, MINTER, wallet, "NonFungible")>>,
                     <<>>, NftEvent(wallet, <<"BadgeMint">>))
    [] k = 8 ->   \* a name-service registration
         Transaction(signature, 17, "Registered alice.sol", wallet, <<SNS_PROGRAM_ID>>, <<>>,
                     <<>>, NoEvents)
    [] k = 9 ->   \* five native transfers, three of them with one counterparty
         Transaction(signature, 18, "Transferred 1 SOL", wallet, <<>>, <<>>,
                     <<NativeTransfer(wallet, FRIEND, 1), NativeTransfer(FRIEND, wallet, 1),
                       NativeTransfer(wallet, FRIEND, 1), NativeTransfer(wallet, RANDOM, 1),
                       NativeTransfer(RANDOM, wallet, 1)>>, NoEvents)
    [] k = 10 ->  \* there and back with one counterparty
         Transaction(signature, 1, "Transferred 1 SOL", wallet, <<>>, <<>>,
                     <<NativeTransfer(wallet, JUPITER, 1), NativeTransfer(JUPITER, wallet, 1)>>,
                     NoEvents)
    [] k = 11 ->  \* the same, later
         Transaction(signature, 2, "Transferred 1 SOL", wallet, <<>>, <<>>,
                     <<NativeTransfer(wallet, JUPITER, 1), NativeTransfer(JUPITER, wallet, 1)>>,
                     NoEvents)
    [] k = 12 ->  \* a bought NFT, minted from no account, and a transfer to oneself
         Transaction(signature, 19, "Bought Mad Lad #42 for 10 SOL", wallet, <<>>,
                     <<TokenTransfer("MadLad42", 1, "", wallet, "NonFungible")>>,
                     <<NativeTransfer(wallet, wallet, 1)>>,
                     NftEvent(wallet, <<"MadLad42">>))

\* the addresses analyzeWallet is called with in Spec
Wallets ==
  { DEFAULT_TEST_WALLET,                 \* valid, in no fixture
    MOCK_SANCTIONED_ADDRESSES[1],        \* valid, sanctioned
    MOCK_FLAGGED_ADDRESSES[1],           \* valid, flagged
    "vines1vzrY",                        \* 10 characters
    "1111111111111111111111111111111",   \* 31 characters
    "111111111111111111111111111111111111111111111",  \* 45 characters
    FRIEND }                             \* 44 characters, not base58

(***************************************************************************)
(* engine.ts: analyzeWallet, one action for each stretch of code between   *)
(* two awaits or two detector calls. Date is read as any value from the     *)
(* last one read up to MaxClock; startTime is 0.                           *)
(***************************************************************************)
Nothing ==
  /\ realBalance = 0 /\ complianceResult = <<>> /\ cexResult = <<>>
  /\ clusteringResult = <<>> /\ washTradingResult = <<>> /\ assetsResult = <<>>
  /\ interacting = <<>> /\ addressRisks = <<>> /\ scoreOutput = <<>> /\ report = <<>>
  /\ clock = 0

Init ==
  /\ walletAddress \in Wallets
  /\ heliusEnabled \in BOOLEAN
  /\ transactions = <<>>
  /\ pc = "start"
  /\ previous = <<>>
  /\ Nothing

\* a variant in which the services are initialized and the history fetched before
\* the address is validated
ValidateAddressLate ==
  /\ pc = "start"
  /\ pc' = "fetch"
  /\ UNCHANGED <<walletAddress, transactions, heliusEnabled, realBalance, complianceResult,
                 cexResult, clusteringResult, washTradingResult, assetsResult, interacting,
                 addressRisks, scoreOutput, report, clock, previous>>

\* isValidSolanaAddress(address) holds: the services are initialized
ValidateAddress ==
  /\ pc = "start"
  /\ isValidSolanaAddress(walletAddress)
  /\ pc' = "fetch"
  /\ UNCHANGED <<walletAddress, transactions, heliusEnabled, realBalance, complianceResult,
                 cexResult, clusteringResult, washTradingResult, assetsResult, interacting,
                 addressRisks, scoreOutput, report, clock, previous>>

\* the address is invalid: the Error is thrown and caught, the error report returned
RejectAddress ==
  /\ pc = "start"
  /\ ~isValidSolanaAddress(walletAddress)
  /\ \E now \in clock..MaxClock :
       /\ report' = << ErrorReport(walletAddress,
                                   <<"Invalid Solana address: ", walletAddress>>, now) >>
       /\ clock' = now
  /\ pc' = "done"
  /\ UNCHANGED <<walletAddress, transactions, heliusEnabled, realBalance, complianceResult,
                 cexResult, clusteringResult, washTradingResult, assetsResult, interacting,
                 addressRisks, scoreOutput, previous>>

\* the template of the last transaction received
LastTemplate ==
  IF transactions = <<>> THEN 0
  ELSE CHOOSE k \in PipelineTemplates :
         transactions[Len(transactions)] =
           PipelineTx(k, ToString(Len(transactions)), walletAddress)

\* heliusService.getHistory: the indexer's answer, one transaction after the other
\* (in the order of PipelineTemplates)
ReceiveTransaction ==
  /\ pc = "fetch"
  /\ heliusEnabled
  /\ previous = <<>>
  /\ Len(transactions) < MaxTxs
  /\ \E k \in PipelineTemplates :
       /\ k >= LastTemplate
       /\ transactions' =
            Append(transactions, PipelineTx(k, ToString(Len(transactions) + 1), walletAddress))
  /\ UNCHANGED <<walletAddress, pc, heliusEnabled, realBalance, complianceResult, cexResult,
                 clusteringResult, washTradingResult, assetsResult, interacting, addressRisks,
                 scoreOutput, report, clock, previous>>

\* heliusService.getHistory returns
HistoryFetched ==
  /\ pc = "fetch"
  /\ heliusEnabled
  /\ previous = <<>>
  /\ pc' = "balance"
  /\ UNCHANGED <<walletAddress, transactions, heliusEnabled, realBalance, complianceResult,
                 cexResult, clusteringResult, washTradingResult, assetsResult, interacting,
                 addressRisks, scoreOutput, report, clock, previous>>

\* the request fails (a transport error, or a response that is not ok):
\* getHistory falls back to getMockTransactions(address)
HistoryFailed ==
  /\ pc = "fetch"
  /\ heliusEnabled
  /\ previous = <<>>
  /\ transactions = <<>>
  /\ \E now \in clock..MaxClock :
       /\ transactions' = getMockTransactions(walletAddress, now)
       /\ clock' = now
  /\ pc' = "balance"
  /\ UNCHANGED <<walletAddress, heliusEnabled, realBalance, complianceResult, cexResult,
                 clusteringResult, washTradingResult, assetsResult, interacting, addressRisks,
                 scoreOutput, report, previous>>

\* no API key: generateMockTransactions(address), in every run
UseMockTransactions ==
  /\ pc = "fetch"
  /\ ~heliusEnabled
  /\ \E now \in clock..MaxClock :
       /\ transactions' = generateMockTransactions(walletAddress, now)
       /\ clock' = now
  /\ pc' = "balance"
  /\ UNCHANGED <<walletAddress, heliusEnabled, realBalance, complianceResult, cexResult,
                 clusteringResult, washTradingResult, assetsResult, interacting, addressRisks,
                 scoreOutput, report, previous>>

\* a later run of analyzeWallet on the same address is given the same transactions
SameTransactions ==
  /\ pc = "fetch"
  /\ heliusEnabled
  /\ previous # <<>>
  /\ pc' = "balance"
  /\ UNCHANGED <<walletAddress, transactions, heliusEnabled, realBalance, complianceResult,
                 cexResult, clusteringResult, washTradingResult, assetsResult, interacting,
                 addressRisks, scoreOutput, report, clock, previous>>

\* heliusService.getBalance(address): any balance, 0 on an error
GetBalance ==
  /\ pc = "balance"
  /\ realBalance' \in 0..MaxBalance
  /\ pc' = "compliance"
  /\ UNCHANGED <<walletAddress, transactions, heliusEnabled, complianceResult, cexResult,
                 clusteringResult, washTradingResult, assetsResult, interacting, addressRisks,
                 scoreOutput, report, clock, previous>>

\* step 2: checkRisk(address)
CheckWalletRisk ==
  /\ pc = "compliance"
  /\ \E now \in clock..MaxClock :
       /\ complianceResult' = << checkRisk(walletAddress, now) >>
       /\ clock' = now
  /\ pc' = "detect"
  /\ UNCHANGED <<walletAddress, transactions, heliusEnabled, realBalance, cexResult,
                 clusteringResult, washTradingResult, assetsResult, interacting, addressRisks,
                 scoreOutput, report, previous>>

\* steps 3 to 5, getInteractingAddresses, and checkInteractingAddresses up to its
\* first `await checkRisk`: none of them waits
RunDetectors ==
  /\ pc = "detect"
  /\ ~TransfersThrow(transactions)
  /\ cexResult' = << detectCEXTransactions(transactions, walletAddress) >>
  /\ clusteringResult' = << detectClustering(transactions, walletAddress) >>
  /\ washTradingResult' = << detectWashTrading(transactions, walletAddress) >>
  /\ assetsResult' = << detectIdentityAssets(transactions, walletAddress) >>
  /\ interacting' = << [addresses |-> getInteractingAddresses(transactions, walletAddress),
                        next |-> 1,
                        sanctionedAddresses |-> <<>>,
                        flaggedAddresses |-> <<>>] >>
  /\ pc' = "screen"
  /\ UNCHANGED <<walletAddress, transactions, heliusEnabled, realBalance, complianceResult,
                 addressRisks, scoreOutput, report, clock, previous>>

\* V8's message for a property read on null
NULL_TRANSFER_MESSAGE == "Cannot read properties of null (reading 'fromUserAccount')"

\* steps 3 to 5 on transactions with a null transfer: the detectors that read it
\* catch their TypeError, getInteractingAddresses has no catch block and its
\* TypeError goes to the catch block of analyzeWallet
AnalysisFailed ==
  /\ pc = "detect"
  /\ TransfersThrow(transactions)
  /\ cexResult' = << detectCEXTransactions(transactions, walletAddress) >>
  /\ clusteringResult' = << detectClustering(transactions, walletAddress) >>
  /\ washTradingResult' = << detectWashTrading(transactions, walletAddress) >>
  /\ assetsResult' = << detectIdentityAssets(transactions, walletAddress) >>
  /\ \E now \in clock..MaxClock :
       /\ report' = << ErrorReport(walletAddress, <<NULL_TRANSFER_MESSAGE>>, now) >>
       /\ clock' = now
  /\ pc' = "done"
  /\ UNCHANGED <<walletAddress, transactions, heliusEnabled, realBalance, complianceResult,
                 interacting, addressRisks, scoreOutput, previous>>

\* the body of the loop of checkInteractingAddresses for one checkRisk result
ScreenResult(acc, result) ==
  IF result.status = "Sanctioned"
  THEN [acc EXCEPT !.sanctionedAddresses = Append(@, result.address), !.next = @ + 1]
  ELSE IF result.status = "Flagged"
  THEN [acc EXCEPT !.flaggedAddresses = Append(@, result.address), !.next = @ + 1]
  ELSE [acc EXCEPT !.next = @ + 1]

\* one round of `for (const [address] of addresses)`; the result's checkedAt is
\* dropped with the result
ScreenNext ==
  /\ pc = "screen"
  /\ interacting[1].next <= Len(interacting[1].addresses)
  /\ interacting' =
       << ScreenResult(interacting[1],
                       checkRisk(interacting[1].addresses[interacting[1].next].address, clock)) >>
  /\ UNCHANGED <<walletAddress, transactions, pc, heliusEnabled, realBalance, complianceResult,
                 cexResult, clusteringResult, washTradingResult, assetsResult, addressRisks,
                 scoreOutput, report, clock, previous>>

\* checkInteractingAddresses returns
FinishScreening ==
  /\ pc = "screen"
  /\ interacting[1].next > Len(interacting[1].addresses)
  /\ addressRisks' = << [sanctionedAddresses |-> interacting[1].sanctionedAddresses,
                         flaggedAddresses |-> interacting[1].flaggedAddresses,
                         totalChecked |-> Len(interacting[1].addresses)] >>
  /\ pc' = "score"
  /\ UNCHANGED <<walletAddress, transactions, heliusEnabled, realBalance, complianceResult,
                 cexResult, clusteringResult, washTradingResult, assetsResult, interacting,
                 scoreOutput, report, clock, previous>>

\* the input of calculatePrivacyScore
ScoreInput ==
  [cexResult |-> cexResult[1], clusteringResult |-> clusteringResult[1],
   assetsResult |-> assetsResult[1], complianceResult |-> complianceResult[1],
   addressRisks |-> addressRisks[1], washTradingDetected |-> washTradingResult[1].detected]

\* `d.amount || 0`, in tenths
AmountOrZero(r) == IF r.amount = <<>> THEN 0 ELSE r.amount[1].whole * 10 + r.amount[1].frac

\* cexVolumeSol, in tenths
CexVolume(cex) ==
  LET Add(sum, r) == sum + AmountOrZero(r)
  IN  FoldLeft(Add, 0, cex.deposits \o cex.withdrawals)

SOL_PRICE_USD == 150

\* steps 7 to 10 and the report
BuildReport ==
  /\ pc = "score"
  /\ scoreOutput' = << calculatePrivacyScore(ScoreInput) >>
  /\ \E now \in clock..MaxClock :
       /\ clock' = now
       /\ report' =
            << [walletAddress |-> walletAddress,
                analyzedAt |-> now,
                balance |-> realBalance,
                transactionsAnalyzed |-> Len(transactions),
                score |-> scoreOutput'[1].score,
                riskLevel |-> determineRiskLevel(scoreOutput'[1].score),
                riskDescription |-> getRiskDescription(determineRiskLevel(scoreOutput'[1].score)),
                warnings |-> collectWarnings(ScoreInput),
                actions |-> generateRecommendations(
                              [cexResult |-> cexResult[1],
                               clusteringResult |-> clusteringResult[1],
                               assetsResult |-> assetsResult[1],
                               complianceResult |-> complianceResult[1],
                               score |-> scoreOutput'[1].score]),
                detectorResults |->
                  [cex |-> cexResult[1], clustering |-> clusteringResult[1],
                   assets |-> assetsResult[1], compliance |-> complianceResult[1],
                   interactingAddressRisks |-> addressRisks[1]],
                analysisMetadata |-> [heliusEnabled |-> heliusEnabled,
                                      apiLimitReached |-> FALSE,
                                      analysisTimeMs |-> now],
                financialExposure |->
                  [exposedSol |-> Max(CexVolume(cexResult[1]), realBalance * 10),
                   exposedUsd |-> Max(CexVolume(cexResult[1]), realBalance * 10) * SOL_PRICE_USD,
                   cexVolumeSol |-> CexVolume(cexResult[1])]] >>
  /\ pc' = "done"
  /\ UNCHANGED <<walletAddress, transactions, heliusEnabled, realBalance, complianceResult,
                 cexResult, clusteringResult, washTradingResult, assetsResult, interacting,
                 addressRisks, previous>>

\* analyzeWallet is called again with the same address
AnalyzeAgain ==
  /\ pc = "done"
  /\ previous = <<>>
  /\ previous' = << [score |-> report[1].score, riskLevel |-> report[1].riskLevel] >>
  /\ pc' = "start"
  /\ realBalance' = 0 /\ complianceResult' = <<>> /\ cexResult' = <<>>
  /\ clusteringResult' = <<>> /\ washTradingResult' = <<>> /\ assetsResult' = <<>>
  /\ interacting' = <<>> /\ addressRisks' = <<>> /\ scoreOutput' = <<>> /\ report' = <<>>
  /\ clock' = 0
  /\ UNCHANGED <<walletAddress, transactions, heliusEnabled>>

Next ==
  \/ ValidateAddress
  \/ RejectAddress
  \/ ReceiveTransaction
  \/ HistoryFetched
  \/ HistoryFailed
  \/ UseMockTransactions
  \/ SameTransactions
  \/ GetBalance
  \/ CheckWalletRisk
  \/ RunDetectors
  \/ ScreenNext
  \/ FinishScreening
  \/ BuildReport
  \/ AnalyzeAgain

Spec == Init /\ [][Next]_vars

(***************************************************************************)
(* The detectors on their own: a history is built one transaction at a     *)
(* time, handed over as built or newest first (the order the indexer       *)
(* returns), and one detector is called on it.                             *)
(***************************************************************************)
InitDetector ==
  /\ walletAddress = DEFAULT_TEST_WALLET
  /\ heliusEnabled = TRUE
  /\ transactions = <<>>
  /\ pc = "history"
  /\ previous = <<>>
  /\ Nothing

Reverse(s) == [i \in 1..Len(s) |-> s[Len(s) + 1 - i]]

\* the history, newest first
NewestFirst ==
  /\ pc = "history"
  /\ Len(transactions) >= 2
  /\ transactions' = Reverse(transactions)
  /\ pc' = "newest_first"
  /\ UNCHANGED <<walletAddress, heliusEnabled, realBalance, complianceResult, cexResult,
                 clusteringResult, washTradingResult, assetsResult, interacting, addressRisks,
                 scoreOutput, report, clock, previous>>

(***************************************************************************)
(* SpecClustering: histories of one transfer per transaction, the transfers *)
(* with one counterparty next to each other, no counterparty with more     *)
(* transfers than the one before it.                                       *)
(***************************************************************************)
Counterparty(c) == "Counterparty" \o ToString(c)

\* the i-th transaction of a history: one transfer with counterparty c, native or
\* token, sent or received, by turns
InteractionTx(i, c, wallet) ==
  CASE i % 4 = 1 ->
         Transaction(ToString(i), i, "", wallet, <<>>, <<>>,
                     <<NativeTransfer(wallet, Counterparty(c), 1)>>, NoEvents)
    [] i % 4 = 2 ->
         Transaction(ToString(i), i, "", Counterparty(c), <<>>, <<>>,
                     <<NativeTransfer(Counterparty(c), wallet, 1)>>, NoEvents)
    [] i % 4 = 3 ->
         Transaction(ToString(i), i, "", wallet, <<>>,
                     <<TokenTransfer("USDC", 3, wallet, Counterparty(c), "Fungible")>>,
                     <<>>, NoEvents)
    [] i % 4 = 0 ->
         Transaction(ToString(i), i, "", Counterparty(c), <<>>,
                     <<TokenTransfer("USDC", 3, Counterparty(c), wallet, "Fungible")>>,
                     <<>>, NoEvents)

\* the counterparty of the one transfer of tx
CounterpartyOf(tx, wallet) == OtherAddress(TransfersOf(tx)[1], wallet)

\* how many transactions of the history are with counterparty c
InteractionsWith(c) ==
  Cardinality({i \in 1..Len(transactions) :
                 CounterpartyOf(transactions[i], walletAddress) = Counterparty(c)})

\* the number of counterparties of the history
Counterparties == Cardinality({c \in 1..MaxInteractions : InteractionsWith(c) > 0})

AddInteraction ==
  /\ pc = "history"
  /\ Len(transactions) < MaxInteractions
  /\ \E c \in {Counterparties, Counterparties + 1} :
       /\ c >= 1
       /\ c = 1 \/ InteractionsWith(c) < InteractionsWith(c - 1)
       /\ transactions' =
            Append(transactions, InteractionTx(Len(transactions) + 1, c, walletAddress))
  /\ UNCHANGED <<walletAddress, pc, heliusEnabled, realBalance, complianceResult, cexResult,
                 clusteringResult, washTradingResult, assetsResult, interacting, addressRisks,
                 scoreOutput, report, clock, previous>>

CallDetectClustering ==
  /\ pc \in {"history", "newest_first"}
  /\ clusteringResult' = << detectClustering(transactions, walletAddress) >>
  /\ pc' = "called"
  /\ UNCHANGED <<walletAddress, transactions, heliusEnabled, realBalance, complianceResult,
                 cexResult, washTradingResult, assetsResult, interacting, addressRisks,
                 scoreOutput, report, clock, previous>>

NextClustering ==
  \/ AddInteraction
  \/ NewestFirst
  \/ CallDetectClustering

SpecClustering == InitDetector /\ [][NextClustering]_vars

(***************************************************************************)
(* SpecWash: histories of native transfers between the wallet and two      *)
(* counterparties, and from the wallet to itself.                          *)
(***************************************************************************)
WashOptions == 1..(4 * MaxTime)

\* option k: a direction with a counterparty, at a time in 1..MaxTime
WashTx(k, signature, wallet) ==
  LET t == ((k - 1) % MaxTime) + 1
      shape == (k - 1) \div MaxTime
  IN  CASE shape = 0 ->   \* the wallet sends to JUPITER
             Transaction(signature, t, "", wallet, <<>>, <<>>,
                         <<NativeTransfer(wallet, JUPITER, 1)>>, NoEvents)
        [] shape = 1 ->   \* the wallet receives from JUPITER
             Transaction(signature, t, "", JUPITER, <<>>, <<>>,
                         <<NativeTransfer(JUPITER, wallet, 1)>>, NoEvents)
        [] shape = 2 ->   \* the wallet receives from RANDOM
             Transaction(signature, t, "", RANDOM, <<>>, <<>>,
                         <<NativeTransfer(RANDOM, wallet, 1)>>, NoEvents)
        [] shape = 3 ->   \* the wallet sends to itself
             Transaction(signature, t, "", wallet, <<>>, <<>>,
                         <<NativeTransfer(wallet, wallet, 1)>>, NoEvents)

\* the option of the last transaction of the history
LastWashOption ==
  IF transactions = <<>> THEN 1
  ELSE CHOOSE k \in WashOptions :
         transactions[Len(transactions)] =
           WashTx(k, ToString(Len(transactions)), walletAddress)

AddWashTransfer ==
  /\ pc = "history"
  /\ Len(transactions) < MaxWashTransfers
  /\ \E k \in WashOptions :
       /\ k >= LastWashOption
       /\ transactions' =
            Append(transactions, WashTx(k, ToString(Len(transactions) + 1), walletAddress))
  /\ UNCHANGED <<walletAddress, pc, heliusEnabled, realBalance, complianceResult, cexResult,
                 clusteringResult, washTradingResult, assetsResult, interacting, addressRisks,
                 scoreOutput, report, clock, previous>>

CallDetectWashTrading ==
  /\ pc \in {"history", "newest_first"}
  /\ washTradingResult' = << detectWashTrading(transactions, walletAddress) >>
  /\ pc' = "called"
  /\ UNCHANGED <<walletAddress, transactions, heliusEnabled, realBalance, complianceResult,
                 cexResult, clusteringResult, assetsResult, interacting, addressRisks,
                 scoreOutput, report, clock, previous>>

NextWash ==
  \/ AddWashTransfer
  \/ NewestFirst
  \/ CallDetectWashTrading

SpecWash == InitDetector /\ [][NextWash]_vars

(***************************************************************************)
(* SpecCEX: histories of transactions with the exchanges of the registry.  *)
(***************************************************************************)
\* the native amounts of SpecCEX: 1 SOL and 2.5 SOL
CexAmounts == <<10, 25>>

CexOptions == 1..(3 * Len(KNOWN_CEX) + 11)

\* option k
CexTx(k, signature, wallet) ==
  LET n == Len(KNOWN_CEX)
  IN  CASE k <= 2 * n ->   \* the wallet pays an exchange, and the fee
             Transaction(signature, k, "", wallet, <<>>, <<>>,
                         <<NativeTransfer(wallet, KNOWN_CEX[((k - 1) % n) + 1].address,
                                          CexAmounts[((k - 1) \div n) + 1])>>, NoEvents)
        [] k > 2 * n /\ k <= 3 * n ->   \* the same, a third party paying the fee
             Transaction(signature, k, "", RANDOM, <<>>, <<>>,
                         <<NativeTransfer(wallet, KNOWN_CEX[k - 2 * n].address, 25)>>,
                         NoEvents)
        [] k = 3 * n + 1 ->   \* an exchange pays the wallet, and the fee
             Transaction(signature, k, "", BINANCE, <<>>, <<>>,
                         <<NativeTransfer(BINANCE, wallet, 10)>>, NoEvents)
        [] k = 3 * n + 2 ->   \* an exchange pays the wallet, the wallet the fee
             Transaction(signature, k, "", wallet, <<>>, <<>>,
                         <<NativeTransfer(COINBASE, wallet, 10)>>, NoEvents)
        [] k = 3 * n + 3 ->   \* an exchange pays the fee of somebody's payment
             Transaction(signature, k, "", KRAKEN, <<>>, <<>>,
                         <<NativeTransfer(RANDOM, wallet, 10)>>, NoEvents)
        [] k = 3 * n + 4 ->   \* tokens from an exchange
             Transaction(signature, k, "", wallet, <<>>,
                         <<TokenTransfer("USDC", 3, KRAKEN, wallet, "Fungible")>>,
                         <<>>, NoEvents)
        [] k = 3 * n + 5 ->   \* tokens to an exchange
             Transaction(signature, k, "", wallet, <<>>,
                         <<TokenTransfer("USDC", 3, wallet, COINBASE, "Fungible")>>,
                         <<>>, NoEvents)
        [] k = 3 * n + 6 ->   \* a payment to somebody else
             Transaction(signature, k, "", wallet, <<>>, <<>>,
                         <<NativeTransfer(wallet, RANDOM, 25)>>, NoEvents)
        [] k = 3 * n + 7 ->   \* an exchange pays somebody else
             Transaction(signature, k, "", wallet, <<>>, <<>>,
                         <<NativeTransfer(BINANCE, RANDOM, 25)>>, NoEvents)
        [] k = 3 * n + 8 ->   \* the wallet pays an exchange, another exchange the fee
             Transaction(signature, k, "", KRAKEN, <<>>, <<>>,
                         <<NativeTransfer(wallet, BINANCE, 25)>>, NoEvents)
        [] k = 3 * n + 9 ->   \* an exchange pays the wallet, another exchange the fee
             Transaction(signature, k, "", KRAKEN, <<>>, <<>>,
                         <<NativeTransfer(COINBASE, wallet, 10)>>, NoEvents)
        [] k = 3 * n + 10 ->   \* the wallet pays itself
             Transaction(signature, k, "", RANDOM, <<>>, <<>>,
                         <<NativeTransfer(wallet, wallet, 10)>>, NoEvents)
        [] k = 3 * n + 11 ->   \* three payments of an exchange and tokens to another
             Transaction(signature, k, "", wallet, <<>>,
                         <<TokenTransfer("USDC", 3, wallet, COINBASE, "Fungible")>>,
                         <<NativeTransfer(BINANCE, wallet, 10),
                           NativeTransfer(BINANCE, wallet, 10),
                           NativeTransfer(BINANCE, wallet, 25)>>, NoEvents)

\* the option of the last transaction of the history
LastCexOption ==
  IF transactions = <<>> THEN 1
  ELSE CHOOSE k \in CexOptions :
         transactions[Len(transactions)] =
           CexTx(k, ToString(Len(transactions)), walletAddress)

AddCexTx ==
  /\ pc = "history"
  /\ Len(transactions) < MaxCexTxs
  /\ \E k \in CexOptions :
       /\ k >= LastCexOption
       /\ transactions' =
            Append(transactions, CexTx(k, ToString(Len(transactions) + 1), walletAddress))
  /\ UNCHANGED <<walletAddress, pc, heliusEnabled, realBalance, complianceResult, cexResult,
                 clusteringResult, washTradingResult, assetsResult, interacting, addressRisks,
                 scoreOutput, report, clock, previous>>

CallDetectCEX ==
  /\ pc \in {"history", "newest_first"}
  /\ cexResult' = << detectCEXTransactions(transactions, walletAddress) >>
  /\ pc' = "called"
  /\ UNCHANGED <<walletAddress, transactions, heliusEnabled, realBalance, complianceResult,
                 clusteringResult, washTradingResult, assetsResult, interacting, addressRisks,
                 scoreOutput, report, clock, previous>>

NextCEX ==
  \/ AddCexTx
  \/ NewestFirst
  \/ CallDetectCEX

SpecCEX == InitDetector /\ [][NextCEX]_vars

(***************************************************************************)
(* SpecCEXExchange: the same histories, the wallet analyzed being one of   *)
(* the exchanges of the registry.                                          *)
(***************************************************************************)
InitExchange ==
  /\ walletAddress = BINANCE
  /\ heliusEnabled = TRUE
  /\ transactions = <<>>
  /\ pc = "history"
  /\ previous = <<>>
  /\ Nothing

SpecCEXExchange == InitExchange /\ [][NextCEX]_vars

(***************************************************************************)
(* SpecRiskLevel: determineRiskLevel on every score calculatePrivacyScore  *)
(* can return, one score after another.                                    *)
(***************************************************************************)
Scores == { [score |-> s, deductions |-> <<>>] : s \in 0..100 }

InitRiskLevel ==
  /\ walletAddress = DEFAULT_TEST_WALLET
  /\ heliusEnabled = TRUE
  /\ transactions = <<>>
  /\ pc = "score"
  /\ previous = <<>>
  /\ realBalance = 0 /\ complianceResult = <<>> /\ cexResult = <<>>
  /\ clusteringResult = <<>> /\ washTradingResult = <<>> /\ assetsResult = <<>>
  /\ interacting = <<>> /\ addressRisks = <<>> /\ report = <<>>
  /\ clock = 0
  /\ \E s \in Scores : scoreOutput = <<s>>

\* step 8 of analyzeWallet
CallDetermineRiskLevel ==
  /\ pc = "score"
  /\ report' = << [score |-> scoreOutput[1].score,
                   riskLevel |-> determineRiskLevel(scoreOutput[1].score)] >>
  /\ pc' = "done"
  /\ UNCHANGED <<walletAddress, transactions, heliusEnabled, realBalance, complianceResult,
                 cexResult, clusteringResult, washTradingResult, assetsResult, interacting,
                 addressRisks, scoreOutput, clock, previous>>

\* another score
NextScore ==
  /\ pc = "done"
  /\ previous = <<>>
  /\ previous' = report
  /\ report' = <<>>
  /\ \E s \in Scores : scoreOutput' = <<s>>
  /\ pc' = "score"
  /\ UNCHANGED <<walletAddress, transactions, heliusEnabled, realBalance, complianceResult,
                 cexResult, clusteringResult, washTradingResult, assetsResult, interacting,
                 addressRisks, clock>>

NextRiskLevel ==
  \/ CallDetermineRiskLevel
  \/ NextScore

SpecRiskLevel == InitRiskLevel /\ [][NextRiskLevel]_vars

(***************************************************************************)
(* Properties                                                              *)
(***************************************************************************)
\* the sum of the points of a deduction log
DeductedPoints(deductions) ==
  LET Add(sum, d) == sum + d.points
  IN  FoldLeft(Add, 0, deductions)

\* C1: in Spec, whatever the address and the transactions, the score of the
\* returned report, and the score calculatePrivacyScore returns, is an integer
\* from 0 to 100.
C1_ScoreInRange ==
  /\ report # <<>> => report[1].score \in 0..100
  /\ scoreOutput # <<>> => scoreOutput[1].score \in 0..100

\* a report whose deductions add up to more than 100 points: the score is 0
C1_Witness ==
  /\ pc = "done"
  /\ scoreOutput # <<>>
  /\ DeductedPoints(scoreOutput[1].deductions) > 100
  /\ report[1].score = 0

\* C2: in Spec, a second run of analyzeWallet on the same address, given the same
\* transactions, returns the score and the risk level of the first run, whatever
\* the clock reads and whatever the balance is.
C2_Deterministic ==
  (previous # <<>> /\ report # <<>>) =>
    /\ report[1].score = previous[1].score
    /\ report[1].riskLevel = previous[1].riskLevel

\* a second run at a later time, on transactions with a counterparty to screen and
\* deductions to make
C2_Witness ==
  /\ previous # <<>>
  /\ pc = "done"
  /\ clock > 0
  /\ isValidSolanaAddress(walletAddress)
  /\ Len(transactions) > 0
  /\ addressRisks[1].totalChecked > 0
  /\ report[1].score < 100

\* the tiers, from the least to the most severe
Severity(level) ==
  CASE level = "LOW" -> 0
    [] level = "MEDIUM" -> 1
    [] level = "HIGH" -> 2
    [] level = "CRITICAL" -> 3

\* C3: in SpecRiskLevel, determineRiskLevel gives a score up to 25 CRITICAL, a score
\* from 26 to 50 HIGH, from 51 to 75 MEDIUM and from 76 to 100 LOW, and of two
\* scores the higher one never gets the more severe tier.
C3_RiskLevel ==
  /\ report # <<>> =>
       report[1].riskLevel =
         (IF report[1].score <= 25 THEN "CRITICAL"
          ELSE IF report[1].score <= 50 THEN "HIGH"
          ELSE IF report[1].score <= 75 THEN "MEDIUM"
          ELSE "LOW")
  /\ (previous # <<>> /\ report # <<>> /\ previous[1].score <= report[1].score) =>
       Severity(previous[1].riskLevel) >= Severity(report[1].riskLevel)

\* the thresholds 50 and 75, one after the other
C3_Witness ==
  /\ previous # <<>> /\ report # <<>>
  /\ previous[1].score = 50 /\ previous[1].riskLevel = "HIGH"
  /\ report[1].score = 75 /\ report[1].riskLevel = "MEDIUM"

\* s occurs in the message, a tuple of strings
Names(message, s) == \E i \in 1..Len(message) : message[i] = s

\* C4: in Spec, for an address that is not 32 to 44 characters of the base58
\* alphabet analyzeWallet returns a report with score 0, risk level CRITICAL, one
\* warning, of severity critical and with the address in its message, no
\* actions, and detector results that detected nothing and contribute 0.
C4_InvalidAddress ==
  (pc = "done" /\ ~AddressPattern(CharCodes(walletAddress))) =>
    /\ report # <<>>
    /\ report[1].score = 0
    /\ report[1].riskLevel = "CRITICAL"
    /\ Len(report[1].warnings) = 1
    /\ report[1].warnings[1].severity = "critical"
    /\ Names(report[1].warnings[1].message, walletAddress)
    /\ report[1].actions = <<>>
    /\ ~report[1].detectorResults.cex.detected
    /\ report[1].detectorResults.cex.riskContribution = 0
    /\ ~report[1].detectorResults.clustering.detected
    /\ report[1].detectorResults.clustering.riskContribution = 0
    /\ ~report[1].detectorResults.assets.detected
    /\ report[1].detectorResults.assets.riskContribution = 0
    /\ report[1].detectorResults.compliance.riskScore = 0
    /\ report[1].detectorResults.interactingAddressRisks.sanctionedAddresses = <<>>
    /\ report[1].detectorResults.interactingAddressRisks.flaggedAddresses = <<>>

\* the report for an address of 10 characters
C4_Witness ==
  /\ pc = "done"
  /\ Len(CharCodes(walletAddress)) = 10
  /\ report[1].score = 0

\* the four detectors found nothing in this run
NothingDetected ==
  /\ ~cexResult[1].detected /\ cexResult[1].riskContribution = 0
  /\ ~clusteringResult[1].detected /\ clusteringResult[1].riskContribution = 0
  /\ ~washTradingResult[1].detected
  /\ ~assetsResult[1].detected /\ assetsResult[1].riskContribution = 0

\* C5 as stated: in Spec, for every valid address and no transactions the four
\* detectors detect nothing and contribute 0, the score is 100 and the risk
\* level LOW.
C5_AsStated ==
  (pc = "done" /\ AddressPattern(CharCodes(walletAddress)) /\ transactions = <<>>) =>
    /\ NothingDetected
    /\ report[1].score = 100
    /\ report[1].riskLevel = "LOW"

\* C5: in Spec, for every valid address that is in neither the sanctioned nor the
\* flagged fixture, and no transactions, the four detectors detect nothing and
\* contribute 0, the score is 100 and the risk level LOW; for a valid address of
\* a fixture the detectors detect nothing as well.
C5_EmptyHistory ==
  (pc = "done" /\ AddressPattern(CharCodes(walletAddress)) /\ transactions = <<>>) =>
    /\ NothingDetected
    /\ (~InSeq(MOCK_SANCTIONED_ADDRESSES, walletAddress)
        /\ ~InSeq(MOCK_FLAGGED_ADDRESSES, walletAddress)) =>
         /\ report[1].score = 100
         /\ report[1].riskLevel = "LOW"

\* the report for the test wallet and no transactions
C5_Witness ==
  /\ pc = "done"
  /\ walletAddress = DEFAULT_TEST_WALLET
  /\ transactions = <<>>
  /\ report[1].score = 100

\* the number of transactions of the history with counterparty a (SpecClustering:
\* one transfer a transaction)
InteractionCount(a) ==
  Cardinality({i \in 1..Len(transactions) :
                 \/ /\ transactions[i].nativeTransfers # <<>>
                    /\ a \in {transactions[i].nativeTransfers[1].fromUserAccount,
                              transactions[i].nativeTransfers[1].toUserAccount}
                 \/ /\ transactions[i].tokenTransfers # <<>>
                    /\ a \in {transactions[i].tokenTransfers[1].fromUserAccount,
                              transactions[i].tokenTransfers[1].toUserAccount}})

\* the counterparties SpecClustering can name
ClusteringCounterparties == { Counterparty(c) : c \in 1..MaxInteractions }

\* C6: in SpecClustering, for a history of fewer than 5 interactions
\* detectClustering returns pattern "none", detected false and riskContribution
\* 0, however the interactions are spread over the counterparties.
C6_TooFewInteractions ==
  (pc = "called" /\ Len(transactions) < 5) =>
    /\ clusteringResult[1].pattern = "none"
    /\ ~clusteringResult[1].detected
    /\ clusteringResult[1].riskContribution = 0

\* four interactions, all of them with one counterparty
C6_Witness ==
  /\ pc = "called"
  /\ Len(transactions) = 4
  /\ InteractionCount(Counterparty(1)) = 4
  /\ clusteringResult[1].pattern = "none"

\* C9: in SpecClustering, for a history of at least 5 interactions of which some
\* counterparty has at least half, detectClustering returns pattern
\* "single_counterparty", detected true and riskContribution 20.
C9_SingleCounterparty ==
  (/\ pc = "called"
   /\ Len(transactions) >= 5
   /\ \E a \in ClusteringCounterparties : 2 * InteractionCount(a) >= Len(transactions)) =>
    /\ clusteringResult[1].pattern = "single_counterparty"
    /\ clusteringResult[1].detected
    /\ clusteringResult[1].riskContribution = 20

\* ten interactions, 5, 3 and 2 of them with three counterparties: exactly 50% with
\* the first, and all of them with three
C9_Witness ==
  /\ pc = "called"
  /\ Len(transactions) = 10
  /\ InteractionCount(Counterparty(1)) = 5
  /\ InteractionCount(Counterparty(2)) = 3
  /\ InteractionCount(Counterparty(3)) = 2
  /\ clusteringResult[1].pattern = "single_counterparty"

\* the transactions with one native transfer from a to b at time t
TransfersAt(a, b, t) ==
  Cardinality({i \in 1..Len(transactions) :
                 /\ transactions[i].timestamp = t
                 /\ transactions[i].nativeTransfers[1].fromUserAccount = a
                 /\ transactions[i].nativeTransfers[1].toUserAccount = b})

\* the chronological list of the transfers with a, as blocks: block 2t - 1 is the
\* transfers sent to a at time t, block 2t the transfers received from a at time t
WashBlock(a, k) ==
  IF k % 2 = 1
  THEN TransfersAt(walletAddress, a, (k + 1) \div 2)
  ELSE TransfersAt(a, walletAddress, k \div 2)

\* the adjacent pairs of different type of the chronological list: within a block
\* none, between two blocks with only empty blocks in between one, if the two are
\* of different type
AdjacentPairsOfDifferentType(a) ==
  Cardinality({<<j, k>> \in (1..(2 * MaxTime)) \X (1..(2 * MaxTime)) :
                 /\ j < k
                 /\ j % 2 # k % 2
                 /\ WashBlock(a, j) > 0
                 /\ WashBlock(a, k) > 0
                 /\ \A m \in (j + 1)..(k - 1) : WashBlock(a, m) = 0})

\* the number of blocks of one type that are not empty, each counted with its size
WashTransfers(a, parity) ==
  LET Add(sum, k) == sum + (IF k % 2 = parity THEN WashBlock(a, k) ELSE 0)
  IN  FoldLeft(Add, 0, [k \in 1..(2 * MaxTime) |-> k])

\* the claim's condition for counterparty a
WashCondition(a) ==
  /\ WashTransfers(a, 1) >= 2
  /\ WashTransfers(a, 0) >= 2
  /\ AdjacentPairsOfDifferentType(a) >= 3

\* C7: in SpecWash, detectWashTrading flags a counterparty exactly if the wallet
\* sent to it at least twice, received from it at least twice, and the
\* chronological list of these transfers (of two at the same time, the one sent
\* first) has at least 3 adjacent pairs of different type; detected is true exactly
\* if some counterparty is flagged.
C7_WashTrading ==
  pc = "called" =>
    /\ \A a \in {JUPITER, RANDOM, walletAddress} :
         (\E i \in 1..Len(washTradingResult[1].pairs) :
            washTradingResult[1].pairs[i].address = a)
         <=> WashCondition(a)
    /\ washTradingResult[1].detected <=> washTradingResult[1].pairs # <<>>
    /\ \A i \in 1..Len(washTradingResult[1].pairs) :
         washTradingResult[1].pairs[i].address \in {JUPITER, RANDOM, walletAddress}

\* JUPITER is flagged, with a transfer sent and one received at each of two times
C7_Witness ==
  /\ pc = "called"
  /\ washTradingResult[1].detected
  /\ washTradingResult[1].pairs[1].address = JUPITER
  /\ washTradingResult[1].pairs[1].alternations = 3
  /\ Len(transactions) = 4

\* the history is one transaction with one transfer, native, from the wallet to
\* an exchange of the registry, and a fee payer that is no exchange
OneWithdrawal ==
  /\ Len(transactions) = 1
  /\ transactions[1].tokenTransfers = <<>>
  /\ Len(transactions[1].nativeTransfers) = 1
  /\ transactions[1].nativeTransfers[1].fromUserAccount = walletAddress
  /\ \E i \in 1..Len(KNOWN_CEX) :
       KNOWN_CEX[i].address = transactions[1].nativeTransfers[1].toUserAccount
  /\ \A i \in 1..Len(KNOWN_CEX) : KNOWN_CEX[i].address # transactions[1].feePayer

\* C8: in SpecCEX, for a history of one transaction whose one transfer is a native
\* transfer of a from the wallet to an exchange X of the registry, the fee payer
\* being no exchange, detectCEXTransactions returns no deposit and one
\* withdrawal, with a name the registry has for X, the amount a / 1e9 (2.5 for
\* 2,500,000,000) and riskContribution 10.
C8_Withdrawal ==
  (pc = "called" /\ OneWithdrawal) =>
    /\ cexResult[1].deposits = <<>>
    /\ Len(cexResult[1].withdrawals) = 1
    /\ \E i \in 1..Len(KNOWN_CEX) :
         /\ KNOWN_CEX[i].address = transactions[1].nativeTransfers[1].toUserAccount
         /\ KNOWN_CEX[i].name = cexResult[1].withdrawals[1].exchangeName
    /\ cexResult[1].withdrawals[1].amount # <<>>
    /\ 10 * cexResult[1].withdrawals[1].amount[1].whole
         + cexResult[1].withdrawals[1].amount[1].frac
       = transactions[1].nativeTransfers[1].amount
    /\ cexResult[1].withdrawals[1].amount[1].frac \in 0..9
    /\ cexResult[1].riskContribution = 10

\* 2,500,000,000 to Binance, a third party paying the fee: 2.5
C8_Witness ==
  /\ pc = "called"
  /\ OneWithdrawal
  /\ transactions[1].feePayer # walletAddress
  /\ transactions[1].nativeTransfers[1].amount = 25
  /\ cexResult[1].withdrawals[1].exchangeName = "Binance"
  /\ cexResult[1].withdrawals[1].amount = << [whole |-> 2, frac |-> 5] >>

\* the entries of a deduction log for the compliance status of the wallet
WalletComplianceEntries(deductions) ==
  {i \in 1..Len(deductions) :
     deductions[i].reason \in { <<"Wallet on sanctions list">>,
                                <<"Wallet flagged for suspicious activity">> }}

\* C10: checkRisk returns status Sanctioned and riskScore 100 for every address of
\* MOCK_SANCTIONED_ADDRESSES, at any time; in Spec, it does for the wallet and for
\* the counterparties screened, and for a wallet of the fixture the deduction log
\* has one entry for the wallet's status, of 50 points, and the score is at most 50.
C10_Sanctioned ==
  /\ \A i \in 1..Len(MOCK_SANCTIONED_ADDRESSES) : \A now \in 0..MaxClock :
       /\ checkRisk(MOCK_SANCTIONED_ADDRESSES[i], now).status = "Sanctioned"
       /\ checkRisk(MOCK_SANCTIONED_ADDRESSES[i], now).riskScore = 100
  /\ (complianceResult # <<>> /\ InSeq(MOCK_SANCTIONED_ADDRESSES, walletAddress)) =>
       /\ complianceResult[1].status = "Sanctioned"
       /\ complianceResult[1].riskScore = 100
  /\ addressRisks # <<>> =>
       \A i \in 1..Len(interacting[1].addresses) :
         InSeq(MOCK_SANCTIONED_ADDRESSES, interacting[1].addresses[i].address)
         => InSeq(addressRisks[1].sanctionedAddresses, interacting[1].addresses[i].address)
  /\ (scoreOutput # <<>> /\ InSeq(MOCK_SANCTIONED_ADDRESSES, walletAddress)) =>
       /\ Cardinality(WalletComplianceEntries(scoreOutput[1].deductions)) = 1
       /\ \A i \in WalletComplianceEntries(scoreOutput[1].deductions) :
            scoreOutput[1].deductions[i].points = 50
       /\ scoreOutput[1].score <= 50
       /\ report[1].score <= 50

\* the report for a sanctioned wallet and no transactions: 50
C10_Witness ==
  /\ pc = "done"
  /\ InSeq(MOCK_SANCTIONED_ADDRESSES, walletAddress)
  /\ transactions = <<>>
  /\ scoreOutput[1].deductions = << [reason |-> <<"Wallet on sanctions list">>, points |-> 50] >>
  /\ report[1].score = 50

\* C13: in Spec, for an address that fails validation no step of the analysis after
\* the validation is ever taken: analyzeWallet is at its start or has returned, no
\* transaction was fetched, no balance looked up, no address screened and no
\* detector called.
C13_NothingInvoked ==
  ~AddressPattern(CharCodes(walletAddress)) =>
    /\ pc \in {"start", "done"}
    /\ transactions = <<>>
    /\ realBalance = 0
    /\ complianceResult = <<>>
    /\ cexResult = <<>> /\ clusteringResult = <<>>
    /\ washTradingResult = <<>> /\ assetsResult = <<>>
    /\ interacting = <<>> /\ addressRisks = <<>>
    /\ scoreOutput = <<>>
    /\ (pc = "done") = (report # <<>>)

\* analyzeWallet has returned for an address of 45 characters
C13_Witness ==
  /\ pc = "done"
  /\ Len(CharCodes(walletAddress)) = 45
  /\ report # <<>>
  /\ report[1].transactionsAnalyzed = 0

(***************************************************************************)
(* SpecScore: calculatePrivacyScore on the detector results, compliance    *)
(* statuses and sanctioned counterparties it can be given.                 *)
(***************************************************************************)
ScoreCexResults ==
  { [riskContribution |-> 0, totalCEXTransactions |-> 0],
    [riskContribution |-> 10, totalCEXTransactions |-> 1],
    [riskContribution |-> 50, totalCEXTransactions |-> 4] }

ScoreClusteringResults ==
  { [riskContribution |-> 0, pattern |-> "none"],
    [riskContribution |-> 14, pattern |-> "small_cluster"],
    [riskContribution |-> 20, pattern |-> "single_counterparty"] }

ScoreAssetsResults ==
  { [riskContribution |-> 0], [riskContribution |-> 5], [riskContribution |-> 30] }

ScoreStatuses == {"Clean", "Flagged", "Sanctioned", "Unknown"}

\* the sanctioned counterparties checkInteractingAddresses can return
ScoreAddressRisks ==
  { [sanctionedAddresses |-> SubSeq(MOCK_SANCTIONED_ADDRESSES, 1, n),
     flaggedAddresses |-> <<>>, totalChecked |-> n] :
      n \in 0..Len(MOCK_SANCTIONED_ADDRESSES) }

InitScore ==
  /\ walletAddress = DEFAULT_TEST_WALLET
  /\ heliusEnabled = TRUE
  /\ transactions = <<>>
  /\ pc = "score"
  /\ previous = <<>>
  /\ realBalance = 0 /\ interacting = <<>> /\ scoreOutput = <<>> /\ report = <<>>
  /\ clock = 0
  /\ \E c \in ScoreCexResults : cexResult = <<c>>
  /\ \E c \in ScoreClusteringResults : clusteringResult = <<c>>
  /\ \E a \in ScoreAssetsResults : assetsResult = <<a>>
  /\ \E s \in ScoreStatuses : complianceResult = << [status |-> s] >>
  /\ \E r \in ScoreAddressRisks : addressRisks = <<r>>
  /\ \E w \in BOOLEAN : washTradingResult = << [detected |-> w, pairs |-> <<>>] >>

\* step 7 of analyzeWallet
CallCalculatePrivacyScore ==
  /\ pc = "score"
  /\ scoreOutput' = << calculatePrivacyScore(ScoreInput) >>
  /\ pc' = "scored"
  /\ UNCHANGED <<walletAddress, transactions, heliusEnabled, realBalance, complianceResult,
                 cexResult, clusteringResult, washTradingResult, assetsResult, interacting,
                 addressRisks, report, clock, previous>>

NextCalculateScore ==
  \/ CallCalculatePrivacyScore

SpecScore == InitScore /\ [][NextCalculateScore]_vars

\* what a deduction is for, by the words its reason starts with
DeductionFor(reason) ==
  CASE reason[1] = "CEX activity (" -> "exchange"
    [] reason[1] = "Clustering pattern: " -> "clustering"
    [] reason[1] = "Identity-revealing assets" -> "identity-asset"
    [] reason[1] \in {"Wallet on sanctions list", "Wallet flagged for suspicious activity"} ->
         "wallet compliance"
    [] reason[1] = "Interacted with " -> "sanctioned counterparties"
    [] reason[1] = "Wash trading pattern detected" -> "wash trading"
    [] OTHER -> "other"

\* the six deductions of the claim, each with its trigger and its points
ClaimedDeductions ==
  << [on |-> cexResult[1].riskContribution > 0, for |-> "exchange",
      points |-> cexResult[1].riskContribution],
     [on |-> clusteringResult[1].riskContribution > 0, for |-> "clustering",
      points |-> clusteringResult[1].riskContribution],
     [on |-> assetsResult[1].riskContribution > 0, for |-> "identity-asset",
      points |-> assetsResult[1].riskContribution],
     [on |-> complianceResult[1].status \in {"Sanctioned", "Flagged"},
      for |-> "wallet compliance",
      points |-> IF complianceResult[1].status = "Sanctioned" THEN 50 ELSE 25],
     [on |-> Len(addressRisks[1].sanctionedAddresses) > 0, for |-> "sanctioned counterparties",
      points |-> IF 20 * Len(addressRisks[1].sanctionedAddresses) < 40
                 THEN 20 * Len(addressRisks[1].sanctionedAddresses) ELSE 40],
     [on |-> washTradingResult[1].detected, for |-> "wash trading", points |-> 15] >>

\* the deductions of the claim whose trigger holds, in their order
TriggeredDeductions ==
  LET IsOn(d) == d.on
      on == SelectSeq(ClaimedDeductions, IsOn)
  IN  [i \in 1..Len(on) |-> [for |-> on[i].for, points |-> on[i].points]]

\* C14: in SpecScore, the deduction log of calculatePrivacyScore is the deductions
\* [exchange, clustering, identity-asset, wallet compliance, sanctioned
\* counterparties, wash trading] whose trigger holds, in that order and with their
\* points (the contribution; 50 for Sanctioned, 25 for Flagged; min(20n, 40); 15),
\* and the score is 100 minus the points of the log, at least 0 and at most 100.
C14_DeductionLog ==
  pc = "scored" =>
    /\ [i \in 1..Len(scoreOutput[1].deductions) |->
          [for |-> DeductionFor(scoreOutput[1].deductions[i].reason),
           points |-> scoreOutput[1].deductions[i].points]]
       = TriggeredDeductions
    /\ scoreOutput[1].score
       = (IF 100 - DeductedPoints(scoreOutput[1].deductions) < 0 THEN 0
          ELSE IF 100 - DeductedPoints(scoreOutput[1].deductions) > 100 THEN 100
          ELSE 100 - DeductedPoints(scoreOutput[1].deductions))

\* all six deductions, the one for three sanctioned counterparties capped at 40:
\* 50 + 20 + 30 + 50 + 40 + 15 points, the score 0
C14_Witness ==
  /\ pc = "scored"
  /\ Len(scoreOutput[1].deductions) = 6
  /\ complianceResult[1].status = "Sanctioned"
  /\ Len(addressRisks[1].sanctionedAddresses) = 3
  /\ scoreOutput[1].deductions[5].points = 40
  /\ DeductedPoints(scoreOutput[1].deductions) = 205
  /\ scoreOutput[1].score = 0

\* C15: in SpecCEX, the result of detectCEXTransactions has riskContribution
\* min(15 * |deposits| + 10 * |withdrawals|, 50), which is from 0 to 50,
\* totalCEXTransactions |deposits| + |withdrawals|, and detected true exactly if
\* there is a deposit or a withdrawal.
C15_CEXRisk ==
  pc = "called" =>
    /\ cexResult[1].riskContribution
       = (IF 15 * Len(cexResult[1].deposits) + 10 * Len(cexResult[1].withdrawals) < 50
          THEN 15 * Len(cexResult[1].deposits) + 10 * Len(cexResult[1].withdrawals)
          ELSE 50)
    /\ cexResult[1].riskContribution \in 0..50
    /\ cexResult[1].totalCEXTransactions
       = Len(cexResult[1].deposits) + Len(cexResult[1].withdrawals)
    /\ cexResult[1].detected
       <=> (cexResult[1].deposits # <<>> \/ cexResult[1].withdrawals # <<>>)

\* three deposits and a withdrawal: 55 points, capped at 50
C15_Witness ==
  /\ pc = "called"
  /\ Len(cexResult[1].deposits) = 3
  /\ Len(cexResult[1].withdrawals) = 1
  /\ cexResult[1].riskContribution = 50
  /\ cexResult[1].totalCEXTransactions = 4

\* a is an address of the registry
InRegistry(a) == \E i \in 1..Len(KNOWN_CEX) : KNOWN_CEX[i].address = a

\* the records of a list for the transfers of the transaction with a signature
\* (the record of the fee payer rule has no amount)
TransferRecords(records, signature) ==
  Cardinality({i \in 1..Len(records) :
                 records[i].signature = signature /\ records[i].amount # <<>>})

\* the records of the fee payer rule for the transaction with a signature
FeePayerRecords(records, signature) ==
  Cardinality({i \in 1..Len(records) :
                 records[i].signature = signature /\ records[i].amount = <<>>})

\* the transfers of a transaction from an exchange to the wallet
DepositTransfers(tx) ==
  Cardinality({j \in 1..Len(TransfersOf(tx)) :
                 /\ InRegistry(TransfersOf(tx)[j].fromUserAccount)
                 /\ TransfersOf(tx)[j].toUserAccount = walletAddress})

\* the transfers of a transaction from the wallet to an exchange
WithdrawalTransfers(tx) ==
  Cardinality({j \in 1..Len(TransfersOf(tx)) :
                 /\ TransfersOf(tx)[j].fromUserAccount = walletAddress
                 /\ InRegistry(TransfersOf(tx)[j].toUserAccount)})

\* the transfers of a transaction between the wallet and an exchange
ExchangeTransfers(tx) ==
  Cardinality({j \in 1..Len(TransfersOf(tx)) :
                 \/ /\ InRegistry(TransfersOf(tx)[j].fromUserAccount)
                    /\ TransfersOf(tx)[j].toUserAccount = walletAddress
                 \/ /\ TransfersOf(tx)[j].fromUserAccount = walletAddress
                    /\ InRegistry(TransfersOf(tx)[j].toUserAccount)})

\* C16 as stated: in SpecCEXExchange, where the wallet is an exchange of the
\* registry, detectCEXTransactions records for the transfers of every transaction
\* a deposit for each transfer from an exchange to the wallet, a withdrawal for
\* each transfer from the wallet to an exchange, and no more records than there
\* are such transfers: no transfer is recorded twice.
C16_AsStated ==
  pc = "called" =>
    \A i \in 1..Len(transactions) :
      /\ TransferRecords(cexResult[1].deposits, transactions[i].signature)
         = DepositTransfers(transactions[i])
      /\ TransferRecords(cexResult[1].withdrawals, transactions[i].signature)
         = WithdrawalTransfers(transactions[i])
      /\ TransferRecords(cexResult[1].deposits, transactions[i].signature)
         + TransferRecords(cexResult[1].withdrawals, transactions[i].signature)
         <= ExchangeTransfers(transactions[i])

\* C17 as stated: in SpecCEX, for every transaction whose fee payer is an exchange
\* other than the wallet, detectCEXTransactions records one deposit by the fee
\* payer rule if no transfer of the transaction was recorded as a deposit or a
\* withdrawal, and none if one was.
C17_AsStated ==
  pc = "called" =>
    \A i \in 1..Len(transactions) :
      (InRegistry(transactions[i].feePayer) /\ transactions[i].feePayer # walletAddress) =>
        FeePayerRecords(cexResult[1].deposits, transactions[i].signature)
        = (IF TransferRecords(cexResult[1].deposits, transactions[i].signature)
              + TransferRecords(cexResult[1].withdrawals, transactions[i].signature) = 0
           THEN 1 ELSE 0)

\* the interactions with the k counterparties that have the most (in
\* SpecClustering no counterparty has more than the one before it)
TopInteractions(k) ==
  LET Add(sum, c) == sum + InteractionCount(Counterparty(c))
  IN  FoldLeft(Add, 0, [c \in 1..k |-> c])

\* the counterparties of the history
DistinctCounterparties ==
  Cardinality({a \in ClusteringCounterparties : InteractionCount(a) > 0})

\* the pattern of the claim for a history whose top counterparty is below 50%
ClaimedPattern ==
  IF DistinctCounterparties >= 3 /\ 100 * TopInteractions(3) >= 80 * Len(transactions)
  THEN "small_cluster"
  ELSE IF DistinctCounterparties >= 10 /\ 100 * TopInteractions(5) >= 70 * Len(transactions)
  THEN "funnel"
  ELSE "none"

\* C18 as stated: in SpecClustering, for a history of at least 5 interactions with
\* every counterparty below 50%, detectClustering returns small_cluster (detected,
\* 14) if there are at least 3 counterparties and the top 3 have at least 80% of
\* the interactions, else funnel (detected, 10) if there are at least 10
\* counterparties and the top 5 have at least 70%, else none (not detected, 0).
C18_AsStated ==
  (/\ pc = "called"
   /\ Len(transactions) >= 5
   /\ \A a \in ClusteringCounterparties : 2 * InteractionCount(a) < Len(transactions)) =>
    /\ clusteringResult[1].pattern = ClaimedPattern
    /\ clusteringResult[1].detected = (ClaimedPattern # "none")
    /\ clusteringResult[1].riskContribution
       = (CASE ClaimedPattern = "small_cluster" -> 14
            [] ClaimedPattern = "funnel" -> 10
            [] ClaimedPattern = "none" -> 0)

(***************************************************************************)
(* SpecClusteringBatch: histories of transactions with one transfer or     *)
(* more, the transfers with one counterparty next to each other, no        *)
(* counterparty with more transfers than the one before it.                *)
(***************************************************************************)
\* the transfers of a history, transaction after transaction
AllTransfers(txs) ==
  LET Concat(all, tx) == all \o TransfersOf(tx)
  IN  FoldLeft(Concat, <<>>, txs)

\* the transfers among `transfers` with counterparty a
TransfersWith(transfers, a) ==
  Cardinality({j \in 1..Len(transfers) :
                 a \in {transfers[j].fromUserAccount, transfers[j].toUserAccount}})

\* the transfers of the history with counterparty a
BatchCount(a) == TransfersWith(AllTransfers(transactions), a)

\* the number of counterparties of the history
BatchCounterparties ==
  Cardinality({c \in 1..MaxBatchTransfers : BatchCount(Counterparty(c)) > 0})

\* a transaction for the n-th transfer of a history, with counterparty c: native or
\* token, sent or received, by turns
BatchTx(n, c, signature, wallet) ==
  InteractionTx(n, c, wallet) @@ [signature |-> signature]

\* the last transaction of a history, with the transfers of tx added
BatchAppend(txs, tx) ==
  [txs EXCEPT ![Len(txs)] =
     [@ EXCEPT !.nativeTransfers = @ \o tx.nativeTransfers,
               !.tokenTransfers = @ \o tx.tokenTransfers]]

AddBatchTransfer ==
  /\ pc = "history"
  /\ Len(AllTransfers(transactions)) < MaxBatchTransfers
  /\ \E c \in {BatchCounterparties, BatchCounterparties + 1} :
       /\ c >= 1
       /\ c = 1 \/ BatchCount(Counterparty(c)) < BatchCount(Counterparty(c - 1))
       /\ \/ transactions' =
               Append(transactions,
                      BatchTx(Len(AllTransfers(transactions)) + 1, c,
                              ToString(Len(transactions) + 1), walletAddress))
          \/ /\ transactions # <<>>
             /\ transactions' =
                  BatchAppend(transactions,
                              BatchTx(Len(AllTransfers(transactions)) + 1, c, "",
                                      walletAddress))
  /\ UNCHANGED <<walletAddress, pc, heliusEnabled, realBalance, complianceResult, cexResult,
                 clusteringResult, washTradingResult, assetsResult, interacting, addressRisks,
                 scoreOutput, report, clock, previous>>

NextClusteringBatch ==
  \/ AddBatchTransfer
  \/ NewestFirst
  \/ CallDetectClustering

SpecClusteringBatch == InitDetector /\ [][NextClusteringBatch]_vars

\* the counterparties of the history that topAddresses leaves out
OutsideTopAddresses ==
  {c \in 1..MaxBatchTransfers :
     /\ BatchCount(Counterparty(c)) > 0
     /\ \A i \in 1..Len(clusteringResult[1].topAddresses) :
          clusteringResult[1].topAddresses[i].address # Counterparty(c)}

AssetOptions == 1..6
GenericNFTOptions == {4, 5}

\* the transaction of option o, with signature s
AssetTx(o, s, wallet) ==
  CASE o = 1 ->   \* three badges by one NFT event
         Transaction(s, 1, "Received Hackathon POAP Badge", wallet, <<>>, <<>>, <<>>,
                     NftEvent(wallet, <<"Badge" \o s \o "a", "Badge" \o s \o "b",
                                        "Badge" \o s \o "c">>))
    [] o = 2 ->
         Transaction(s, 2, "Registered alice.sol", wallet, <<SNS_PROGRAM_ID>>, <<>>, <<>>,
                     NoEvents)
    [] o = 3 ->
         Transaction(s, 3, "Registered bob.sol", wallet, <<>>, <<>>, <<>>, NoEvents)
    [] o = 4 ->   \* a generic NFT by an NFT event
         Transaction(s, 4, "Bought Mad Lad #42 for 10 SOL", wallet, <<>>, <<>>, <<>>,
                     NftEvent(wallet, <<"MadLad" \o s>>))
    [] o = 5 ->   \* a generic NFT by a token transfer
         Transaction(s, 5, "", wallet, <<>>,
                     <<TokenTransfer("Collectible", 1, MINTER, wallet, "NonFungible")>>,
                     <<>>, NoEvents)
    [] OTHER ->   \* a badge by a token transfer, the same mint every time
         Transaction(s, 6, "Received Hackathon POAP Badge", wallet, <<>>,
                     <<TokenTransfer("BadgeMint", 1, MINTER, wallet, "NonFungible")>>,
                     <<>>, NoEvents)

AddAssetTx ==
  /\ pc = "history"
  /\ Len(transactions) < MaxAssetTxs
  /\ \E o \in AssetOptions :
       transactions' = Append(transactions,
                              AssetTx(o, ToString(Len(transactions) + 1), walletAddress))
  /\ UNCHANGED <<walletAddress, pc, heliusEnabled, realBalance, complianceResult, cexResult,
                 clusteringResult, washTradingResult, assetsResult, interacting, addressRisks,
                 scoreOutput, report, clock, previous>>

CallDetectIdentityAssets ==
  /\ pc \in {"history", "extended"}
  /\ assetsResult' = <<detectIdentityAssets(transactions, walletAddress)>>
  /\ pc' = IF pc = "history" THEN "called" ELSE "called_again"
  /\ UNCHANGED <<walletAddress, transactions, heliusEnabled, realBalance, complianceResult,
                 cexResult, clusteringResult, washTradingResult, interacting, addressRisks,
                 scoreOutput, report, clock, previous>>

\* a transaction that brings generic NFTs only enters the history at place p; the
\* result of the call before is kept in `previous`
AddGenericNFTs ==
  /\ pc = "called"
  /\ \E o \in GenericNFTOptions : \E p \in 0..Len(transactions) :
       transactions' = SubSeq(transactions, 1, p)
                         \o <<AssetTx(o, "n", walletAddress)>>
                         \o SubSeq(transactions, p + 1, Len(transactions))
  /\ previous' = assetsResult
  /\ pc' = "extended"
  /\ UNCHANGED <<walletAddress, heliusEnabled, realBalance, complianceResult, cexResult,
                 clusteringResult, washTradingResult, assetsResult, interacting, addressRisks,
                 scoreOutput, report, clock>>

NextAssets ==
  \/ AddAssetTx
  \/ CallDetectIdentityAssets
  \/ AddGenericNFTs

SpecAssets == InitDetector /\ [][NextAssets]_vars

\* C20: the risk contribution of detectIdentityAssets is min(5 * |poapsDetected| +
\* 10 * |solDomainsDetected|, 30), within 0..30, and the same after transactions
\* that yield generic NFTs only are added to the history.
C20_AssetsRisk ==
  /\ pc \in {"called", "called_again"} =>
       /\ \/ assetsResult[1].riskContribution
               = 5 * Len(assetsResult[1].poapsDetected)
                   + 10 * Len(assetsResult[1].solDomainsDetected)
          \/ /\ assetsResult[1].riskContribution = 30
             /\ 5 * Len(assetsResult[1].poapsDetected)
                  + 10 * Len(assetsResult[1].solDomainsDetected) > 30
       /\ assetsResult[1].riskContribution \in 0..30
  /\ pc = "called_again" =>
       /\ assetsResult[1].riskContribution = previous[1].riskContribution
       /\ assetsResult[1].poapsDetected = previous[1].poapsDetected
       /\ assetsResult[1].solDomainsDetected = previous[1].solDomainsDetected

\* three badges and two domains are 35 points, capped at 30, and stay 30 with a
\* generic NFT more
C20_Witness ==
  /\ pc = "called_again"
  /\ Len(assetsResult[1].poapsDetected) = 3
  /\ Len(assetsResult[1].solDomainsDetected) = 2
  /\ assetsResult[1].riskContribution = 30
  /\ Len(previous[1].nftsDetected) = 0
  /\ Len(assetsResult[1].nftsDetected) = 1

(***************************************************************************)
(* SpecResponse: analyzeWallet on a response of the indexer that is cast   *)
(* to ParsedTransaction[] as it comes (index.ts 165): some of its arrays    *)
(* hold a null.                                                            *)
(***************************************************************************)
ResponseOptions == 1..7

\* the transaction of option o, with signature s
ResponseTx(o, s, wallet) ==
  CASE o = 1 ->   \* a deposit from Binance
         Transaction(s, 1, "", wallet, <<>>, <<>>,
                     <<NativeTransfer(BINANCE, wallet, 25)>>, NoEvents)
    [] o = 2 ->   \* a badge
         Transaction(s, 2, "Received Hackathon POAP Badge", wallet, <<>>, <<>>, <<>>,
                     NftEvent(wallet, <<"Badge" \o s>>))
    [] o = 3 ->   \* five transfers to one counterparty
         Transaction(s, 3, "", wallet, <<>>, <<>>,
                     [i \in 1..5 |-> NativeTransfer(wallet, FRIEND, 10)], NoEvents)
    [] o = 4 ->   \* a null native transfer
         Transaction(s, 4, "", wallet, <<>>, <<>>, <<NULL>>, NoEvents)
    [] o = 5 ->   \* a deposit from Binance, then a null native transfer
         Transaction(s, 5, "", wallet, <<>>, <<>>,
                     <<NativeTransfer(BINANCE, wallet, 25), NULL>>, NoEvents)
    [] o = 6 ->   \* a null token transfer
         Transaction(s, 6, "", wallet, <<>>, <<NULL>>, <<>>, NoEvents)
    [] OTHER ->   \* a badge, and a null account
         [Transaction(s, 7, "Received Hackathon POAP Badge", wallet, <<>>, <<>>, <<>>,
                      NftEvent(wallet, <<"Badge" \o s>>))
            EXCEPT !.accountData = <<NULL>>]

InitResponse ==
  /\ walletAddress = "vines1vzrYbzLMRdu58ou5XTby4qAqVRLmqo36NKPTg"
  /\ heliusEnabled = TRUE
  /\ transactions = <<>>
  /\ pc = "start"
  /\ previous = <<>>
  /\ Nothing

\* heliusService.getHistory: the response, one transaction after the other
ReceiveResponse ==
  /\ pc = "fetch"
  /\ Len(transactions) < MaxResponseTxs
  /\ \E o \in ResponseOptions :
       transactions' = Append(transactions,
                              ResponseTx(o, ToString(Len(transactions) + 1), walletAddress))
  /\ UNCHANGED <<walletAddress, pc, heliusEnabled, realBalance, complianceResult, cexResult,
                 clusteringResult, washTradingResult, assetsResult, interacting, addressRisks,
                 scoreOutput, report, clock, previous>>

NextResponse ==
  \/ ValidateAddress
  \/ ReceiveResponse
  \/ HistoryFetched
  \/ GetBalance
  \/ CheckWalletRisk
  \/ RunDetectors
  \/ AnalysisFailed
  \/ ScreenNext
  \/ FinishScreening
  \/ BuildReport

SpecResponse == InitResponse /\ [][NextResponse]_vars

NotNull(entry) == ~IsNull(entry)

\* the response without its nulls
Repaired(txs) ==
  [i \in 1..Len(txs) |->
     [txs[i] EXCEPT !.nativeTransfers = SelectSeq(@, NotNull),
                    !.tokenTransfers = SelectSeq(@, NotNull),
                    !.accountData = SelectSeq(@, NotNull)]]

\* checkInteractingAddresses on the counterparties of txs
ScreenedAddresses(txs, wallet) ==
  LET Screen(acc, entry) == ScreenResult(acc, checkRisk(entry.address, 0))
      screened == FoldLeft(Screen, [next |-> 1, sanctionedAddresses |-> <<>>,
                                    flaggedAddresses |-> <<>>],
                           getInteractingAddresses(txs, wallet))
  IN  [sanctionedAddresses |-> screened.sanctionedAddresses,
       flaggedAddresses |-> screened.flaggedAddresses,
       totalChecked |-> screened.next - 1]

\* the score of analyzeWallet on transactions without a null
AnalysisScore(txs, wallet) ==
  calculatePrivacyScore(
    [cexResult |-> detectCEXTransactions(txs, wallet),
     clusteringResult |-> detectClustering(txs, wallet),
     assetsResult |-> detectIdentityAssets(txs, wallet),
     complianceResult |-> checkRisk(wallet, 0),
     addressRisks |-> ScreenedAddresses(txs, wallet),
     washTradingDetected |-> detectWashTrading(txs, wallet).detected]).score

\* the detectors that fail on the response
FailedDetectors ==
  (IF TransfersThrow(transactions) THEN {"cex", "clustering"} ELSE {})
    \cup (IF WashThrows(transactions) THEN {"wash"} ELSE {})
    \cup (IF AssetsThrows(transactions) THEN {"assets"} ELSE {})

ReportFields ==
  {"walletAddress", "analyzedAt", "balance", "transactionsAnalyzed", "score", "riskLevel",
   "riskDescription", "warnings", "actions", "detectorResults", "analysisMetadata",
   "financialExposure"}

\* C11: whichever detectors fail on the transactions, analyzeWallet returns a
\* complete report whose score is not lower than the score of the analysis of
\* the same transactions with no failure (the transactions without the nulls the
\* detectors fail on).
C11_AsStated ==
  (pc = "done" /\ FailedDetectors # {}) =>
    /\ DOMAIN report[1] = ReportFields
    /\ report[1].score >= AnalysisScore(Repaired(transactions), walletAddress)

\* the detectors have returned
DetectorsReturned == pc \in {"screen", "score", "done"} /\ cexResult # <<>>

\* C12: a detector that takes an exception during its scan, whatever it has
\* collected by then, returns its complete zero-risk default (not detected, empty
\* lists, pattern none, riskContribution 0) and nothing of what it collected;
\* the detectors that take none return what they return on the same
\* transactions without the nulls.
C12_ZeroRiskDefault ==
  DetectorsReturned =>
    /\ IF "cex" \in FailedDetectors
       THEN cexResult[1] = [detected |-> FALSE, deposits |-> <<>>, withdrawals |-> <<>>,
                            totalCEXTransactions |-> 0, exchangesInvolved |-> <<>>,
                            riskContribution |-> 0]
       ELSE cexResult[1] = detectCEXTransactions(Repaired(transactions), walletAddress)
    /\ IF "clustering" \in FailedDetectors
       THEN clusteringResult[1] =
              [detected |-> FALSE, clusteringPercentage |-> [num |-> 0, den |-> 1],
               topAddresses |-> <<>>, dominantAddress |-> <<>>, totalUniqueAddresses |-> 0,
               totalTransactions |-> Len(transactions), riskContribution |-> 0,
               pattern |-> "none"]
       ELSE clusteringResult[1] = detectClustering(Repaired(transactions), walletAddress)
    /\ IF "wash" \in FailedDetectors
       THEN washTradingResult[1] = [detected |-> FALSE, pairs |-> <<>>]
       ELSE washTradingResult[1] = detectWashTrading(Repaired(transactions), walletAddress)
    /\ IF "assets" \in FailedDetectors
       THEN assetsResult[1] = [detected |-> FALSE, nftsDetected |-> <<>>,
                               solDomainsDetected |-> <<>>, poapsDetected |-> <<>>,
                               identityExposureLevel |-> "none", riskContribution |-> 0]
       ELSE assetsResult[1] = detectIdentityAssets(Repaired(transactions), walletAddress)

\* a deposit from Binance is collected, then a null native transfer is read: the
\* exchange detector returns its default, the identity-asset detector the badge
\* of the other transaction
C12_Witness ==
  /\ DetectorsReturned
  /\ FailedDetectors = {"cex", "clustering", "wash"}
  /\ Len(transactions) = 2
  /\ Len(transactions[1].nativeTransfers) = 2
  /\ ~IsNull(transactions[1].nativeTransfers[1])
  /\ IsNull(transactions[1].nativeTransfers[2])
  /\ detectCEXTransactions(Repaired(transactions), walletAddress).detected
  /\ ~cexResult[1].detected
  /\ Len(assetsResult[1].poapsDetected) = 1

(***************************************************************************)
(* SpecAssetsMints: detectIdentityAssets on histories in which one mint     *)
(* comes by NFT events and by token transfers, called again on the same     *)
(* transactions in another order.                                          *)
(***************************************************************************)
MintOptions == 1..5

\* the transaction of option o, with signature s
MintTx(o, s, wallet) ==
  CASE o = 1 ->   \* a badge by an NFT event
         Transaction(s, 1, "Received Hackathon POAP Badge", wallet, <<>>, <<>>, <<>>,
                     NftEvent(wallet, <<"MintA">>))
    [] o = 2 ->   \* a badge by a token transfer
         Transaction(s, 2, "Received Hackathon POAP Badge", wallet, <<>>,
                     <<TokenTransfer("MintA", 1, MINTER, wallet, "NonFungible")>>,
                     <<>>, NoEvents)
    [] o = 3 ->   \* a generic NFT by an NFT event
         Transaction(s, 3, "Bought Mad Lad #42 for 10 SOL", wallet, <<>>, <<>>, <<>>,
                     NftEvent(wallet, <<"MintA">>))
    [] o = 4 ->   \* a generic NFT by a token transfer
         Transaction(s, 4, "", wallet, <<>>,
                     <<TokenTransfer("MintA", 1, MINTER, wallet, "NonFungible")>>,
                     <<>>, NoEvents)
    [] OTHER ->   \* a badge by an NFT event and by a token transfer
         Transaction(s, 5, "Received Hackathon POAP Badge", wallet, <<>>,
                     <<TokenTransfer("MintA", 1, MINTER, wallet, "NonFungible")>>,
                     <<>>, NftEvent(wallet, <<"MintA">>))

AddMintTx ==
  /\ pc = "history"
  /\ Len(transactions) < MaxMintTxs
  /\ \E o \in MintOptions :
       transactions' = Append(transactions,
                              MintTx(o, ToString(Len(transactions) + 1), walletAddress))
  /\ UNCHANGED <<walletAddress, pc, heliusEnabled, realBalance, complianceResult, cexResult,
                 clusteringResult, washTradingResult, assetsResult, interacting, addressRisks,
                 scoreOutput, report, clock, previous>>

\* the orders of n things
Orders(n) ==
  {p \in [1..n -> 1..n] : \A i \in 1..n : \A j \in 1..n : p[i] = p[j] => i = j}

\* the same transactions come in another order; the result of the call before is
\* kept in `previous`
PermuteTransactions ==
  /\ pc = "called"
  /\ \E p \in Orders(Len(transactions)) :
       transactions' = [i \in 1..Len(transactions) |-> transactions[p[i]]]
  /\ previous' = assetsResult
  /\ pc' = "extended"
  /\ UNCHANGED <<walletAddress, heliusEnabled, realBalance, complianceResult, cexResult,
                 clusteringResult, washTradingResult, assetsResult, interacting, addressRisks,
                 scoreOutput, report, clock>>

NextAssetsMints ==
  \/ AddMintTx
  \/ CallDetectIdentityAssets
  \/ PermuteTransactions

SpecAssetsMints == InitDetector /\ [][NextAssetsMints]_vars

\* no mint twice among assets
DistinctMints(assets) ==
  \A i \in 1..Len(assets) : \A j \in 1..Len(assets) :
    assets[i].mint = assets[j].mint => i = j

\* C21: after any transactions no mint is twice in poapsDetected and no mint is
\* twice in nftsDetected, whether it came by an NFT event, by a token transfer, or
\* by both.
C21_AsStated ==
  pc \in {"called", "called_again"} =>
    /\ DistinctMints(assetsResult[1].poapsDetected)
    /\ DistinctMints(assetsResult[1].nftsDetected)

\* C28: for the same transactions in any other order, detectIdentityAssets finds
\* the same numbers of POAPs, NFTs and domains, the same exposure level and the
\* same riskContribution.
C28_AsStated ==
  pc = "called_again" =>
    /\ Len(assetsResult[1].poapsDetected) = Len(previous[1].poapsDetected)
    /\ Len(assetsResult[1].nftsDetected) = Len(previous[1].nftsDetected)
    /\ Len(assetsResult[1].solDomainsDetected) = Len(previous[1].solDomainsDetected)
    /\ assetsResult[1].identityExposureLevel = previous[1].identityExposureLevel
    /\ assetsResult[1].riskContribution = previous[1].riskContribution

(***************************************************************************)
(* SpecCheckRisk: checkRisk on an address, called twice.                    *)
(***************************************************************************)
\* an address whose hash is -2^31 before Math.abs
HASH_WRAP_ADDRESS == "WrapMASi45ub7Qe4ZE36UT5G6cU4ud8Fhhe4dhacsziz"

RiskAddresses ==
  {KNOWN_CEX[i].address : i \in 1..Len(KNOWN_CEX)}
    \cup {MOCK_SANCTIONED_ADDRESSES[i] : i \in 1..Len(MOCK_SANCTIONED_ADDRESSES)}
    \cup {MOCK_FLAGGED_ADDRESSES[i] : i \in 1..Len(MOCK_FLAGGED_ADDRESSES)}
    \cup { DEFAULT_TEST_WALLET, FRIEND, RANDOM, MINTER, JUPITER, HASH_WRAP_ADDRESS,
           SYSTEM_PROGRAM,                        \* 32 characters
           "1111111111111111111111111111111",     \* 31 characters
           "111111111111111111111111111111111111111111111",  \* 45 characters
           "vines1vzrY", "" }

InitCheckRisk ==
  /\ walletAddress \in RiskAddresses
  /\ heliusEnabled = TRUE
  /\ transactions = <<>>
  /\ pc = "start"
  /\ previous = <<>>
  /\ Nothing

CallCheckRisk ==
  /\ pc = "start"
  /\ \E now \in clock..MaxClock :
       /\ complianceResult' = << checkRisk(walletAddress, now) >>
       /\ clock' = now
  /\ pc' = "checked"
  /\ UNCHANGED <<walletAddress, transactions, heliusEnabled, realBalance, cexResult,
                 clusteringResult, washTradingResult, assetsResult, interacting, addressRisks,
                 scoreOutput, report, previous>>

\* the caller keeps the result and asks again
CheckRiskAgain ==
  /\ pc = "checked"
  /\ previous = <<>>
  /\ previous' = complianceResult
  /\ pc' = "start"
  /\ UNCHANGED <<walletAddress, transactions, heliusEnabled, realBalance, complianceResult,
                 cexResult, clusteringResult, washTradingResult, assetsResult, interacting,
                 addressRisks, scoreOutput, report, clock>>

NextCheckRisk ==
  \/ CallCheckRisk
  \/ CheckRiskAgain

SpecCheckRisk == InitCheckRisk /\ [][NextCheckRisk]_vars

\* the four bytes, lowest first, of 31 * b + char modulo 2^32
WrapByteStep(b, char) ==
  LET t1 == 31 * b[1] + char
      t2 == 31 * b[2] + t1 \div 256
      t3 == 31 * b[3] + t2 \div 256
      t4 == 31 * b[4] + t3 \div 256
  IN  <<t1 % 256, t2 % 256, t3 % 256, t4 % 256>>

\* the absolute value, modulo 30, of the signed 32-bit number of bytes b: 256, its
\* powers and 2^32 are 16 modulo 30
WrapMagnitudeMod30(b) ==
  LET unsigned == (b[1] + 16 * (b[2] + b[3] + b[4])) % 30
  IN  IF b[4] < 128 THEN unsigned ELSE (16 + 30 - unsigned) % 30

\* the 32-bit wrapping hash of the address, modulo 30
WrapHashMod30(address) ==
  WrapMagnitudeMod30(FoldLeft(WrapByteStep, <<0, 0, 0, 0>>, CharCodes(address)))

\* C22: checkRisk gives Unknown with riskScore 0 to an address of fewer than 32
\* or more than 44 characters, else Sanctioned with 100 to an address of the
\* sanctioned set, else Flagged with 65 to one of the flagged set, else Clean
\* with the 32-bit wrapping hash of the address modulo 30, a number of 0..29.
C22_CheckRisk ==
  pc = "checked" =>
    LET n == Len(CharCodes(walletAddress))
        result == complianceResult[1]
    IN  /\ result.address = walletAddress
        /\ IF n < 32 \/ n > 44
           THEN result.status = "Unknown" /\ result.riskScore = 0
           ELSE IF \E i \in 1..Len(MOCK_SANCTIONED_ADDRESSES) :
                     MOCK_SANCTIONED_ADDRESSES[i] = walletAddress
           THEN result.status = "Sanctioned" /\ result.riskScore = 100
           ELSE IF \E i \in 1..Len(MOCK_FLAGGED_ADDRESSES) :
                     MOCK_FLAGGED_ADDRESSES[i] = walletAddress
           THEN result.status = "Flagged" /\ result.riskScore = 65
           ELSE /\ result.status = "Clean"
                /\ result.riskScore = WrapHashMod30(walletAddress)
                /\ result.riskScore \in 0..29

\* the address whose hash wraps to -2^31 is Clean with riskScore 2^31 % 30 = 8
C22_Witness ==
  /\ pc = "checked"
  /\ walletAddress = HASH_WRAP_ADDRESS
  /\ hashAddress(walletAddress) = [hi |-> 32768, lo |-> 0]
  /\ complianceResult[1].status = "Clean"
  /\ complianceResult[1].riskScore = 8

(***************************************************************************)
(* SpecScreening: the loop of checkInteractingAddresses with its checkRisk  *)
(* calls started and completed in any interleaving (the scheduling the      *)
(* specification asks for; the code awaits one call after the other). A     *)
(* call reads the clock when it starts; its result goes through the body   *)
(* of the loop when it completes.                                          *)
(***************************************************************************)
ScreenedCounterparties ==
  <<MOCK_SANCTIONED_ADDRESSES[1], MOCK_SANCTIONED_ADDRESSES[2], MOCK_FLAGGED_ADDRESSES[1],
    FRIEND>>

\* the place of a counterparty in ScreenedCounterparties
CounterpartyIndex(a) == CHOOSE k \in 1..Len(ScreenedCounterparties) : ScreenedCounterparties[k] = a

\* one more transaction, a native transfer to a counterparty not before the last
\* one in ScreenedCounterparties
AddScreenedTx ==
  /\ pc = "history"
  /\ Len(transactions) < MaxScreenedTxs
  /\ \E k \in 1..Len(ScreenedCounterparties) :
       /\ k >= (IF transactions = <<>> THEN 1
                ELSE CounterpartyIndex(
                       transactions[Len(transactions)].nativeTransfers[1].toUserAccount))
       /\ transactions' =
            Append(transactions,
                   Transaction(ToString(Len(transactions) + 1), Len(transactions) + 1, "",
                               walletAddress, <<>>, <<>>,
                               <<NativeTransfer(walletAddress, ScreenedCounterparties[k], 10)>>,
                               NoEvents))
  /\ UNCHANGED <<walletAddress, pc, heliusEnabled, realBalance, complianceResult, cexResult,
                 clusteringResult, washTradingResult, assetsResult, interacting, addressRisks,
                 scoreOutput, report, clock, previous>>

\* checkInteractingAddresses(getInteractingAddresses(transactions, address)) is called
StartScreening ==
  /\ pc = "history"
  /\ interacting' = << [addresses |-> getInteractingAddresses(transactions, walletAddress),
                        next |-> 1,
                        sanctionedAddresses |-> <<>>,
                        flaggedAddresses |-> <<>>,
                        started |-> {},
                        running |-> {}] >>
  /\ pc' = "screen"
  /\ UNCHANGED <<walletAddress, transactions, heliusEnabled, realBalance, complianceResult,
                 cexResult, clusteringResult, washTradingResult, assetsResult, addressRisks,
                 scoreOutput, report, clock, previous>>

\* checkRisk is called for an address not yet asked for
StartCall ==
  /\ pc = "screen"
  /\ \E i \in (1..Len(interacting[1].addresses)) \ interacting[1].started :
       \E now \in clock..MaxClock :
         /\ interacting' =
              << [interacting[1] EXCEPT
                    !.started = @ \cup {i},
                    !.running = @ \cup {checkRisk(interacting[1].addresses[i].address, now)}] >>
         /\ clock' = now
  /\ UNCHANGED <<walletAddress, transactions, pc, heliusEnabled, realBalance, complianceResult,
                 cexResult, clusteringResult, washTradingResult, assetsResult, addressRisks,
                 scoreOutput, report, previous>>

\* one of the calls returns: the body of the loop for its result
CompleteCall ==
  /\ pc = "screen"
  /\ \E result \in interacting[1].running :
       interacting' =
         << [ScreenResult(interacting[1], result) EXCEPT !.running = @ \ {result}] >>
  /\ UNCHANGED <<walletAddress, transactions, pc, heliusEnabled, realBalance, complianceResult,
                 cexResult, clusteringResult, washTradingResult, assetsResult, addressRisks,
                 scoreOutput, report, clock, previous>>

\* every call has returned: checkInteractingAddresses returns
CompleteScreening ==
  /\ pc = "screen"
  /\ interacting[1].started = 1..Len(interacting[1].addresses)
  /\ interacting[1].running = {}
  /\ addressRisks' = << [sanctionedAddresses |-> interacting[1].sanctionedAddresses,
                         flaggedAddresses |-> interacting[1].flaggedAddresses,
                         totalChecked |-> Len(interacting[1].addresses)] >>
  /\ pc' = "called"
  /\ UNCHANGED <<walletAddress, transactions, heliusEnabled, realBalance, complianceResult,
                 cexResult, clusteringResult, washTradingResult, assetsResult, interacting,
                 scoreOutput, report, clock, previous>>

NextScreening ==
  \/ AddScreenedTx
  \/ StartScreening
  \/ StartCall
  \/ CompleteCall
  \/ CompleteScreening

SpecScreening == InitDetector /\ [][NextScreening]_vars

\* the elements of a list
Elements(s) == {s[i] : i \in 1..Len(s)}

\* the score of analyzeWallet on the transactions, with addressRisks as given
ScoreWith(risks) ==
  calculatePrivacyScore(
    [cexResult |-> detectCEXTransactions(transactions, walletAddress),
     clusteringResult |-> detectClustering(transactions, walletAddress),
     assetsResult |-> detectIdentityAssets(transactions, walletAddress),
     complianceResult |-> checkRisk(walletAddress, 0),
     addressRisks |-> risks,
     washTradingDetected |-> detectWashTrading(transactions, walletAddress).detected]).score

CounterpartyOptions == 1..7

\* the transaction of option o, with signature s
CounterpartyTx(o, s, wallet) ==
  CASE o = 1 ->   \* two native transfers to a clean address
         Transaction(s, 1, "", wallet, <<>>, <<>>,
                     <<NativeTransfer(wallet, FRIEND, 10), NativeTransfer(wallet, FRIEND, 10)>>,
                     NoEvents)
    [] o = 2 ->   \* two native transfers from a sanctioned address
         Transaction(s, 2, "", wallet, <<>>, <<>>,
                     <<NativeTransfer(MOCK_SANCTIONED_ADDRESSES[1], wallet, 10),
                       NativeTransfer(MOCK_SANCTIONED_ADDRESSES[1], wallet, 10)>>,
                     NoEvents)
    [] o = 3 ->   \* a token transfer from a flagged address
         Transaction(s, 3, "", wallet, <<>>,
                     <<TokenTransfer("TokenMint", 5, MOCK_FLAGGED_ADDRESSES[1], wallet,
                                     "Fungible")>>,
                     <<>>, NoEvents)
    [] o = 4 ->   \* three native transfers from a sanctioned address to a third one
         Transaction(s, 4, "", wallet, <<>>, <<>>,
                     [i \in 1..3 |-> NativeTransfer(MOCK_SANCTIONED_ADDRESSES[2], FRIEND, 10)],
                     NoEvents)
    [] o = 5 ->   \* a token transfer between two other addresses
         Transaction(s, 5, "", wallet, <<>>,
                     <<TokenTransfer("TokenMint", 5, RANDOM, MOCK_FLAGGED_ADDRESSES[2],
                                     "Fungible")>>,
                     <<>>, NoEvents)
    [] o = 6 ->   \* a native transfer of the wallet to itself
         Transaction(s, 6, "", wallet, <<>>, <<>>,
                     <<NativeTransfer(wallet, wallet, 10)>>, NoEvents)
    [] OTHER ->   \* a native transfer to a clean address, and one between two others
         Transaction(s, 7, "", wallet, <<>>, <<>>,
                     <<NativeTransfer(wallet, FRIEND, 10), NativeTransfer(RANDOM, FRIEND, 10)>>,
                     NoEvents)

AddCounterpartyTx ==
  /\ pc = "history"
  /\ Len(transactions) < MaxCounterpartyTxs
  /\ \E o \in CounterpartyOptions :
       transactions' = Append(transactions,
                              CounterpartyTx(o, ToString(Len(transactions) + 1), walletAddress))
  /\ UNCHANGED <<walletAddress, pc, heliusEnabled, realBalance, complianceResult, cexResult,
                 clusteringResult, washTradingResult, assetsResult, interacting, addressRisks,
                 scoreOutput, report, clock, previous>>

\* the history is complete: steps 3 to 6 follow
HistoryComplete ==
  /\ pc = "history"
  /\ pc' = "detect"
  /\ UNCHANGED <<walletAddress, transactions, heliusEnabled, realBalance, complianceResult,
                 cexResult, clusteringResult, washTradingResult, assetsResult, interacting,
                 addressRisks, scoreOutput, report, clock, previous>>

NextCounterparties ==
  \/ AddCounterpartyTx
  \/ HistoryComplete
  \/ RunDetectors
  \/ ScreenNext
  \/ FinishScreening

SpecCounterparties == InitDetector /\ [][NextCounterparties]_vars

\* the wallet is the source or the destination of the transfer
OwnTransfer(transfer) ==
  transfer.fromUserAccount = walletAddress \/ transfer.toUserAccount = walletAddress

\* the transactions without their transfers between other addresses
OwnTransfers(txs) ==
  [i \in 1..Len(txs) |->
     [txs[i] EXCEPT !.nativeTransfers = SelectSeq(@, OwnTransfer),
                    !.tokenTransfers = SelectSeq(@, OwnTransfer)]]

\* C26: a transfer between two other addresses adds nothing to the counts of
\* detectClustering and no address to the counterparties screened: both are
\* what they are for the transactions without these transfers.
C26_AsStated ==
  pc \in {"screen", "score"} =>
    /\ clusteringResult[1] = detectClustering(OwnTransfers(transactions), walletAddress)
    /\ interacting[1].addresses = getInteractingAddresses(OwnTransfers(transactions),
                                                          walletAddress)

\* the other side of every transfer of the wallet with another address
OwnCounterparties(txs, wallet) ==
  LET Involved(tx) ==
        {t \in Elements(TransfersOf(tx)) :
           t.fromUserAccount = wallet \/ t.toUserAccount = wallet}
  IN  UNION {{OtherAddress(t, wallet) : t \in Involved(txs[i])} : i \in 1..Len(txs)}
        \ {wallet, ""}

\* the addresses among the counterparties that checkRisk gives the status
WithStatus(addresses, status) ==
  {a \in addresses : checkRisk(a, 0).status = status}

NoDuplicates(s) == \A i, j \in 1..Len(s) : s[i] = s[j] => i = j

\* the addresses checkInteractingAddresses has called checkRisk with, in order
Screened == [i \in 1..Len(interacting[1].addresses) |-> interacting[1].addresses[i].address]

\* C24: checkInteractingAddresses screens each distinct counterparty of the
\* wallet exactly once and partitions them by status: sanctionedAddresses is
\* the set of the Sanctioned ones, flaggedAddresses the set of the Flagged
\* ones, the lists are disjoint and without duplicates, the wallet is in
\* neither, and totalChecked is the number of distinct counterparties.
C24_AsStated ==
  pc = "score" =>
    LET counterparties == OwnCounterparties(transactions, walletAddress)
        result == addressRisks[1]
    IN  /\ Elements(Screened) = counterparties
        /\ NoDuplicates(Screened)
        /\ Elements(result.sanctionedAddresses) = WithStatus(counterparties, "Sanctioned")
        /\ Elements(result.flaggedAddresses) = WithStatus(counterparties, "Flagged")
        /\ Elements(result.sanctionedAddresses) \cap Elements(result.flaggedAddresses) = {}
        /\ NoDuplicates(result.sanctionedAddresses)
        /\ NoDuplicates(result.flaggedAddresses)
        /\ walletAddress \notin Elements(result.sanctionedAddresses)
                                  \cup Elements(result.flaggedAddresses)
        /\ result.totalChecked = Cardinality(counterparties)

\* every native transfer of the history is a transfer of the wallet to itself
OnlySelfTransfers ==
  /\ transactions # <<>>
  /\ \A i \in 1..Len(transactions) :
       \A j \in 1..Len(transactions[i].nativeTransfers) :
         LET transfer == transactions[i].nativeTransfers[j]
         IN  transfer.fromUserAccount = walletAddress /\ transfer.toUserAccount = walletAddress

\* the input of calculatePrivacyScore for the history, with the result of detectWashTrading
WashScoreInput(detected) ==
  [cexResult |-> detectCEXTransactions(transactions, walletAddress),
   clusteringResult |-> detectClustering(transactions, walletAddress),
   assetsResult |-> detectIdentityAssets(transactions, walletAddress),
   complianceResult |-> checkRisk(walletAddress, 0),
   addressRisks |-> [sanctionedAddresses |-> <<>>, flaggedAddresses |-> <<>>, totalChecked |-> 0],
   washTradingDetected |-> detected]

\* C27: detectWashTrading never flags the wallet as its own counterparty: a
\* native transfer of the wallet to itself adds no entry to a sent or received
\* list, and a history of self-transfers alone gives detected = false and no
\* 15-point deduction.
C27_AsStated ==
  pc = "called" =>
    LET timelines == WashTimelines(transactions, walletAddress)
        result == washTradingResult[1]
    IN  /\ \A i \in 1..Len(timelines) : timelines[i].address # walletAddress
        /\ \A i \in 1..Len(result.pairs) : result.pairs[i].address # walletAddress
        /\ OnlySelfTransfers =>
             /\ ~result.detected
             /\ calculatePrivacyScore(WashScoreInput(result.detected))
                  = calculatePrivacyScore(WashScoreInput(FALSE))

\* C29: in every result of detectClustering, detected holds exactly when the
\* pattern is not "none" and exactly when riskContribution is positive, and
\* riskContribution is 0, 10, 14 or 20: the pattern "wash_trading", the
\* contribution 30 and the fallback contribution 8 never come out.
C29_ClusteringResult ==
  pc = "called" =>
    LET result == clusteringResult[1]
    IN  /\ result.detected <=> result.pattern # "none"
        /\ result.detected <=> result.riskContribution > 0
        /\ result.riskContribution \in {0, 10, 14, 20}
        /\ result.pattern \in {"none", "single_counterparty", "small_cluster", "funnel"}
        /\ result.pattern = "single_counterparty" <=> result.riskContribution = 20
        /\ result.pattern = "small_cluster" <=> result.riskContribution = 14
        /\ result.pattern = "funnel" <=> result.riskContribution = 10

\* a wallet whose first counterparty has exactly half of the interactions:
\* detected by the 50% rule, and named single_counterparty
C29_Witness ==
  /\ pc = "called"
  /\ clusteringResult[1].detected
  /\ clusteringResult[1].clusteringPercentage = [num |-> 300, den |-> 6]
  /\ clusteringResult[1].totalUniqueAddresses = 3
  /\ clusteringResult[1].pattern = "single_counterparty"
  /\ clusteringResult[1].riskContribution = 20

\* the place of a warning in the detector order: exchange deposits, exchange
\* withdrawals, clustering, identity assets, wallet compliance, sanctioned counterparties
WarningRank(warning) ==
  CASE warning.category = "CEX" ->
         IF warning.message[1] = "Direct deposit from " THEN 1 ELSE 2
    [] warning.category = "Clustering" -> 3
    [] warning.category = "Identity" -> 4
    [] warning.category = "Compliance" ->
         IF warning.message[1] = "This wallet has interacted with " THEN 6 ELSE 5
    [] OTHER -> 0

\* the report of a completed analysis
Analyzed == pc = "done" /\ report # <<>> /\ scoreOutput # <<>>

\* C25: the warnings of a report come in the fixed detector order: exchange
\* warnings (deposits before withdrawals), clustering, identity assets, the
\* wallet's compliance, sanctioned counterparties; no warning of a later
\* detector precedes one of an earlier detector.  The score is the one
\* calculatePrivacyScore gives for the detector results, whatever the warnings.
C25_WarningOrder ==
  Analyzed =>
    LET warnings == report[1].warnings
        results == report[1].detectorResults
    IN  /\ \A i \in 1..Len(warnings) : WarningRank(warnings[i]) \in 1..6
        /\ \A i, j \in 1..Len(warnings) :
             i < j => WarningRank(warnings[i]) <= WarningRank(warnings[j])
        /\ Len(warnings) =
             Len(results.cex.deposits) + Len(results.cex.withdrawals)
             + Len(generateClusteringWarnings(results.clustering))
             + Len(generateAssetWarnings(results.assets))
             + (IF results.compliance.status \in {"Sanctioned", "Flagged"} THEN 1 ELSE 0)
             + (IF results.interactingAddressRisks.sanctionedAddresses # <<>> THEN 1 ELSE 0)
        /\ report[1].score =
             calculatePrivacyScore(
               [cexResult |-> results.cex, clusteringResult |-> results.clustering,
                assetsResult |-> results.assets, complianceResult |-> results.compliance,
                addressRisks |-> results.interactingAddressRisks,
                washTradingDetected |-> washTradingResult[1].detected]).score

\* a report with exchange, clustering, identity-asset and compliance warnings
C25_Witness ==
  /\ Analyzed
  /\ {WarningRank(report[1].warnings[i]) : i \in 1..Len(report[1].warnings)} = {1, 2, 3, 4, 5}

(***************************************************************************)
(* SpecAggregate: steps 7 to 10 of analyzeWallet, on the detector results  *)
(* of a history and a result of checkInteractingAddresses, and again with  *)
(* another list of flagged counterparties.                                 *)
(***************************************************************************)
AggregateWallets ==
  {DEFAULT_TEST_WALLET, MOCK_SANCTIONED_ADDRESSES[1], MOCK_FLAGGED_ADDRESSES[1]}

AggregateHistories(wallet) ==
  {<<>>, getMockTransactions(wallet, 3)}
    \cup {<<PipelineTx(k, "1", wallet)>> : k \in PipelineTemplates}

\* the lists of flagged counterparties checkInteractingAddresses can return
FlaggedLists ==
  {SubSeq(MOCK_FLAGGED_ADDRESSES, 1, n) : n \in 0..Len(MOCK_FLAGGED_ADDRESSES)}

AggregateAddressRisks ==
  { [sanctionedAddresses |-> SubSeq(MOCK_SANCTIONED_ADDRESSES, 1, n),
     flaggedAddresses |-> flagged, totalChecked |-> n + Len(flagged)] :
      n \in 0..2, flagged \in FlaggedLists }

InitAggregate ==
  /\ walletAddress \in AggregateWallets
  /\ heliusEnabled = TRUE
  /\ transactions \in AggregateHistories(walletAddress)
  /\ pc = "score"
  /\ previous = <<>>
  /\ realBalance = 0 /\ interacting = <<>> /\ scoreOutput = <<>> /\ report = <<>>
  /\ clock = 0
  /\ complianceResult = << checkRisk(walletAddress, 0) >>
  /\ cexResult = << detectCEXTransactions(transactions, walletAddress) >>
  /\ clusteringResult = << detectClustering(transactions, walletAddress) >>
  /\ washTradingResult = << detectWashTrading(transactions, walletAddress) >>
  /\ assetsResult = << detectIdentityAssets(transactions, walletAddress) >>
  /\ \E r \in AggregateAddressRisks : addressRisks = <<r>>

\* steps 7 to 10 of analyzeWallet
Aggregate ==
  /\ pc \in {"score", "score_again"}
  /\ scoreOutput' = << calculatePrivacyScore(ScoreInput) >>
  /\ report' =
       << [score |-> scoreOutput'[1].score,
           riskLevel |-> determineRiskLevel(scoreOutput'[1].score),
           riskDescription |-> getRiskDescription(determineRiskLevel(scoreOutput'[1].score)),
           warnings |-> collectWarnings(ScoreInput),
           actions |-> generateRecommendations(
                         [cexResult |-> cexResult[1],
                          clusteringResult |-> clusteringResult[1],
                          assetsResult |-> assetsResult[1],
                          complianceResult |-> complianceResult[1],
                          score |-> scoreOutput'[1].score])] >>
  /\ pc' = IF pc = "score" THEN "scored" ELSE "scored_again"
  /\ UNCHANGED <<walletAddress, transactions, heliusEnabled, realBalance, complianceResult,
                 cexResult, clusteringResult, washTradingResult, assetsResult, interacting,
                 addressRisks, clock, previous>>

\* the same input with another list of flagged counterparties
OtherFlaggedAddresses ==
  /\ pc = "scored"
  /\ \E flagged \in FlaggedLists :
       /\ flagged # addressRisks[1].flaggedAddresses
       /\ addressRisks' = << [addressRisks[1] EXCEPT !.flaggedAddresses = flagged] >>
  /\ previous' = << [scoreOutput |-> scoreOutput[1], report |-> report[1],
                     flaggedAddresses |-> addressRisks[1].flaggedAddresses] >>
  /\ pc' = "score_again"
  /\ UNCHANGED <<walletAddress, transactions, heliusEnabled, realBalance, complianceResult,
                 cexResult, clusteringResult, washTradingResult, assetsResult, interacting,
                 scoreOutput, report, clock>>

NextAggregate ==
  \/ Aggregate
  \/ OtherFlaggedAddresses

SpecAggregate == InitAggregate /\ [][NextAggregate]_vars

\* C30: flagged counterparties have no effect on the outcome: with another
\* list of flagged counterparties and nothing else changed, the score, the
\* deduction log, the tier and the warnings are the same.
C30_FlaggedNoEffect ==
  pc = "scored_again" =>
    /\ scoreOutput[1].score = previous[1].scoreOutput.score
    /\ scoreOutput[1].deductions = previous[1].scoreOutput.deductions
    /\ report[1].score = previous[1].report.score
    /\ report[1].riskLevel = previous[1].report.riskLevel
    /\ report[1].warnings = previous[1].report.warnings

\* two flagged counterparties instead of none, beside a sanctioned one: the
\* 20 points of the sanctioned counterparty are deducted both times
C30_Witness ==
  /\ pc = "scored_again"
  /\ previous[1].flaggedAddresses = <<>>
  /\ Len(addressRisks[1].flaggedAddresses) = 2
  /\ Len(addressRisks[1].sanctionedAddresses) = 1
  /\ scoreOutput[1].score = 80
  /\ Len(report[1].warnings) = 1
====
